---------------------------- MODULE Spec2Model ----------------------------
(***************************************************************************)
(* State-machine model of the riichi mahjong engine of mahjong-agent:      *)
(* GameState / Wall (src/env/core/game_state.py) driven through            *)
(* MahjongEnv.reset / MahjongEnv.step (src/env/mahjong_env.py), with the   *)
(* candidate generation and hand outcome of RulesEngine                    *)
(* (src/env/core/rules.py) and the response resolution of ActionValidator  *)
(* (src/env/core/rules/action_validator.py).                               *)
(*                                                                         *)
(* Python's None is written NoTile / NoAction / NoneIdx, a literal -1      *)
(* index is written -1.  A call that ends in an uncaught exception keeps   *)
(* the assignments made before the raise and sets `raised`.                *)
(***************************************************************************)
EXTENDS Integers, Sequences, FiniteSets, TLC

\* ------------------------------------------------------------------------
\* Program constants
\* ------------------------------------------------------------------------
NUM_TILES_TOTAL == 136
NUM_DEAD_WALL == 14
NUM_REPLACEMENT_TILES == 4
num_players == 4
initial_score == 25000
HAND_SIZE == 13
NUM_TILE_VALUES == 34

Seats == 0 .. (num_players - 1)
NoneIdx == 0 - 2

\* ------------------------------------------------------------------------
\* Tiles (actions.py Tile: value 0..33 and the red-five flag)
\* ------------------------------------------------------------------------
Tile(v, r) == [value |-> v, is_red |-> r]
NoTile == [value |-> 0 - 1, is_red |-> FALSE]
T(v) == Tile(v, FALSE)
R(v) == Tile(v, TRUE)

\* Wall._generate_tiles: position i (0-based) of the unshuffled set.  Each
\* value fills four consecutive positions; for rank 5 of a suit the first of
\* the four is the red tile.
DeckTile(i) ==
  LET v == i \div 4
  IN  Tile(v, v < 27 /\ v % 9 = 4 /\ i % 4 = 0)

_generate_tiles == [i \in 1 .. NUM_TILES_TOTAL |-> DeckTile(i - 1)]

\* ------------------------------------------------------------------------
\* Generic sequence helpers (Python list semantics)
\* ------------------------------------------------------------------------
SeqCount(s, x) == Cardinality({i \in DOMAIN s : s[i] = x})

InSeq(s, x) == \E i \in DOMAIN s : s[i] = x

\* The elements of s at the positions in I, in their order in s.
AtPositions(s, I) ==
  [k \in 1 .. Cardinality(I) |->
     s[CHOOSE i \in I : Cardinality({j \in I : j <= i}) = k]]

\* How many of s[1..i] equal s[i].
Occurrence(s, i) == Cardinality({j \in 1 .. i : s[j] = s[i]})

\* The list without the first occurrence of x (unchanged when x is absent).
RemoveFirst(s, x) ==
  AtPositions(s, {i \in DOMAIN s : s[i] # x \/ Occurrence(s, i) > 1})

\* The list without, for each x, its first SeqCount(xs, x) occurrences.
RemoveAllOf(s, xs) ==
  AtPositions(s, {i \in DOMAIN s : Occurrence(s, i) > SeqCount(xs, s[i])})

\* list.sort() / sorted() on tiles: Tile.__lt__ compares the value only and
\* the sort is stable, so equal values keep their relative order.
SortedTiles(s) ==
  LET Rank(i) ==
        Cardinality({j \in DOMAIN s : s[j].value < s[i].value})
          + Cardinality({j \in 1 .. i : s[j].value = s[i].value})
  IN  [k \in DOMAIN s |-> s[CHOOSE i \in DOMAIN s : Rank(i) = k]]

\* ------------------------------------------------------------------------
\* Shuffles.  random.shuffle may leave the 136 tiles in any order; the
\* model draws the order from lists of orders, of which a bound admits the
\* first ones: orders that random.shuffle leaves after random.seed, the
\* unshuffled set, and stacked walls with the listed tiles on top (the four
\* 13-tile deals for seats 0..3, then the draws), the listed tiles at the
\* bottom (the dead wall) and the rest of the set between them in
\* generation order.
\* ------------------------------------------------------------------------
Code(n) == IF n >= 100 THEN R(n - 100) ELSE T(n)
Tiles(codes) == [i \in DOMAIN codes |-> Code(codes[i])]
StackedWall(top, bottom) ==
  Tiles(top)
    \o RemoveAllOf(_generate_tiles, Tiles(top) \o Tiles(bottom))
    \o Tiles(bottom)

\* A lively first turn.  Seat 0 holds three honor triplets; seat 1 waits on
\* 3p and holds a pair of North; seat 2 holds pairs of 3p and 4s and a
\* red/plain pair of 5m; seat 3 waits on 3p/6p and holds three West.  The
\* dealer draws 3p, the next draws are 6p.
TopA ==
  << 4, 21, 27, 27, 27, 28, 28, 28, 29, 29, 29, 31, 33,
     9, 10, 18, 19, 20, 21, 22, 23, 24, 25, 26, 33, 33,
     104, 4, 11, 11, 15, 17, 21, 21, 27, 28, 29, 30, 26,
     0, 1, 2, 3, 4, 5, 12, 13, 31, 31, 31, 32, 32,
     11, 14, 14, 14, 14 >>

\* A quiet hand.  Seats 0 and 1 hold four triplets and a single tile; the
\* fourth tiles of the triplets and the other tiles they wait on are in the
\* dead wall; seats 2 and 3 hold loose tiles.
TopB ==
  << 27, 27, 27, 28, 28, 28, 29, 29, 29, 30, 30, 30, 31,
     0, 0, 0, 3, 3, 3, 6, 6, 6, 9, 9, 9, 12,
     1, 2, 4, 7, 10, 13, 14, 16, 18, 21, 24, 32, 33,
     5, 8, 11, 15, 17, 19, 20, 22, 23, 25, 26, 32, 33,
     32, 33 >>
BottomB == << 27, 28, 29, 30, 0, 3, 6, 9, 31, 31, 31, 12, 12, 12 >>

\* What random.shuffle leaves of the new deck after random.seed(11),
\* random.seed(123) and random.seed(0).
Shuffled11 ==
  << 13, 23, 20, 27, 33, 27, 8, 11, 26, 31, 31, 28, 32, 32, 15, 2, 9,
     22, 7, 24, 5, 20, 8, 27, 15, 13, 28, 5, 30, 104, 3, 33, 30, 7,
     24, 15, 10, 1, 3, 23, 32, 13, 16, 11, 4, 29, 5, 4, 10, 26, 3,
     19, 18, 25, 6, 23, 11, 25, 25, 18, 21, 24, 17, 6, 21, 0, 18, 12,
     22, 17, 12, 3, 26, 24, 9, 16, 22, 10, 8, 21, 17, 113, 8, 27, 14,
     2, 21, 0, 15, 9, 29, 7, 16, 6, 18, 14, 10, 14, 0, 29, 7, 31,
     1, 1, 2, 16, 26, 0, 19, 5, 30, 19, 23, 20, 31, 12, 19, 1, 20,
     122, 28, 25, 17, 2, 4, 9, 14, 6, 33, 30, 11, 12, 32, 33, 29, 28 >>

Shuffled123 ==
  << 22, 3, 27, 1, 28, 21, 15, 18, 30, 20, 12, 10, 23, 13, 29, 24, 27,
     20, 4, 33, 11, 25, 31, 32, 31, 26, 14, 14, 113, 19, 9, 23, 7, 32,
     25, 7, 16, 11, 29, 25, 0, 8, 8, 21, 3, 33, 27, 17, 21, 25, 32,
     3, 20, 30, 12, 9, 6, 7, 11, 17, 14, 6, 8, 29, 29, 5, 26, 18,
     2, 5, 22, 19, 11, 13, 122, 15, 32, 24, 16, 12, 0, 26, 18, 16, 20,
     19, 6, 23, 16, 30, 9, 1, 15, 8, 15, 18, 28, 9, 0, 104, 4, 31,
     28, 1, 33, 14, 23, 10, 28, 2, 12, 19, 2, 24, 13, 0, 30, 7, 22,
     10, 17, 31, 4, 5, 1, 27, 10, 21, 24, 2, 6, 33, 26, 5, 17, 3 >>

Shuffled0 ==
  << 11, 19, 23, 30, 31, 7, 0, 26, 12, 13, 28, 6, 22, 3, 16, 10, 13,
     1, 14, 5, 27, 12, 14, 27, 29, 5, 20, 26, 21, 122, 11, 18, 11, 1,
     25, 104, 0, 33, 24, 16, 12, 3, 29, 5, 31, 24, 1, 18, 25, 9, 28,
     9, 20, 28, 8, 113, 5, 22, 27, 33, 21, 8, 4, 3, 15, 29, 33, 21,
     14, 17, 27, 7, 7, 18, 6, 2, 10, 7, 32, 15, 23, 0, 20, 12, 2,
     0, 23, 1, 8, 33, 14, 15, 17, 6, 20, 19, 10, 13, 31, 26, 17, 15,
     10, 21, 2, 23, 30, 9, 4, 32, 32, 22, 17, 8, 25, 19, 3, 24, 30,
     9, 4, 16, 6, 29, 28, 18, 11, 30, 19, 25, 31, 32, 16, 2, 26, 24 >>

\* What random.shuffle leaves after random.seed(7).
Shuffled7 ==
  << 8, 18, 104, 0, 22, 8, 12, 33, 29, 6, 24, 14, 24, 4, 14, 23, 11,
     6, 21, 0, 30, 21, 22, 15, 32, 21, 15, 16, 12, 10, 19, 0, 11, 30,
     33, 25, 15, 7, 25, 26, 122, 5, 113, 5, 9, 8, 23, 10, 0, 31, 16,
     2, 5, 12, 16, 19, 8, 27, 31, 16, 24, 26, 32, 10, 19, 20, 2, 24,
     22, 7, 33, 11, 14, 14, 10, 29, 17, 15, 6, 19, 27, 28, 30, 29, 33,
     11, 32, 20, 23, 26, 3, 5, 21, 25, 9, 27, 28, 17, 32, 30, 9, 4,
     17, 1, 28, 1, 12, 27, 18, 29, 18, 28, 20, 7, 3, 18, 26, 1, 31,
     17, 31, 7, 2, 13, 13, 2, 1, 13, 3, 23, 6, 4, 3, 25, 9, 20 >>

\* What the first and the second random.shuffle after random.seed(5) leave.
Shuffled5 ==
  << 32, 24, 10, 16, 9, 20, 25, 28, 4, 1, 26, 15, 18, 7, 3, 17, 27,
     1, 12, 8, 2, 33, 11, 30, 122, 26, 18, 13, 30, 21, 19, 1, 18, 14,
     19, 14, 8, 26, 7, 3, 33, 3, 17, 16, 20, 32, 30, 29, 6, 33, 21,
     12, 28, 14, 21, 13, 5, 11, 29, 25, 0, 2, 22, 31, 16, 22, 23, 15,
     17, 11, 9, 19, 10, 28, 20, 10, 2, 8, 4, 23, 13, 11, 0, 9, 27,
     33, 28, 27, 20, 21, 30, 6, 32, 9, 31, 5, 29, 6, 24, 0, 25, 104,
     14, 26, 19, 4, 2, 25, 24, 5, 12, 24, 31, 5, 8, 113, 6, 23, 0,
     31, 18, 32, 17, 12, 7, 27, 15, 23, 7, 10, 3, 15, 29, 1, 22, 16 >>

Shuffled5Next ==
  << 26, 26, 21, 0, 18, 16, 6, 30, 0, 33, 20, 2, 33, 18, 6, 6, 21,
     27, 22, 23, 27, 24, 0, 9, 7, 3, 21, 29, 1, 1, 12, 2, 24, 19,
     7, 14, 9, 31, 23, 24, 26, 20, 14, 8, 14, 7, 4, 29, 33, 28, 28,
     18, 7, 0, 13, 22, 19, 10, 24, 21, 17, 11, 12, 8, 19, 22, 17, 9,
     30, 11, 33, 11, 32, 17, 16, 8, 23, 2, 5, 10, 30, 28, 5, 17, 12,
     3, 25, 12, 32, 30, 8, 15, 10, 28, 32, 15, 27, 16, 27, 19, 14, 31,
     9, 13, 31, 4, 11, 13, 5, 3, 113, 25, 20, 32, 18, 23, 104, 6, 31,
     10, 15, 25, 1, 20, 29, 1, 4, 26, 29, 16, 122, 15, 2, 25, 5, 3 >>

\* The first n of a list of orders.
FirstOrders(orders, n) == { orders[i] : i \in (1 .. n) \cap DOMAIN orders }

\* The orders random.shuffle is taken to leave, in the order in which a
\* larger MaxShuffles admits them: two stacked ones, the order of the new
\* deck and the ones above.
ShuffleOrders ==
  << StackedWall(TopA, <<>>), Tiles(Shuffled11), StackedWall(TopB, BottomB),
     _generate_tiles, Tiles(Shuffled7), Tiles(Shuffled5), Tiles(Shuffled123),
     Tiles(Shuffled0), Tiles(Shuffled5Next) >>

MaxShuffles == 6
Shuffles == FirstOrders(ShuffleOrders, MaxShuffles)

\* The orders the shuffle of a second instance is taken to leave.
TwinOrders ==
  << StackedWall(TopA, <<>>), Tiles(Shuffled11), Tiles(Shuffled5Next),
     Tiles(Shuffled123) >>

MaxTwinShuffles == 3
TwinShuffles == FirstOrders(TwinOrders, MaxTwinShuffles)

\* ------------------------------------------------------------------------
\* Enumerations and records
\* ------------------------------------------------------------------------
GamePhases ==
  { "GAME_START", "HAND_START", "DEALING", "PLAYER_DRAW", "PLAYER_DISCARD",
    "WAITING_FOR_RESPONSE", "ACTION_PROCESSING", "HAND_OVER_SCORES",
    "GAME_OVER" }

ActionTypes ==
  { "DISCARD", "RIICHI", "CHI", "PON", "KAN", "TSUMO", "RON", "PASS",
    "SPECIAL_DRAW" }

\* actions.py Action (frozen dataclass); absent fields are None.
Action(ty, tile, chi, kt, rd, wt) ==
  [type |-> ty, tile |-> tile, chi_tiles |-> chi, kan_type |-> kt,
   riichi_discard |-> rd, winning_tile |-> wt]
NoAction == Action("NONE", NoTile, <<>>, "NONE", NoTile, NoTile)
ActDiscard(t) == Action("DISCARD", t, <<>>, "NONE", NoTile, NoTile)
ActPass == Action("PASS", NoTile, <<>>, "NONE", NoTile, NoTile)
ActRon(t) == Action("RON", NoTile, <<>>, "NONE", NoTile, t)
ActTsumo(t) == Action("TSUMO", NoTile, <<>>, "NONE", NoTile, t)
ActPon(t) == Action("PON", t, <<>>, "NONE", NoTile, NoTile)
ActKan(t, kt) == Action("KAN", t, <<>>, kt, NoTile, NoTile)
ActChi(t, pair) == Action("CHI", t, pair, "NONE", NoTile, NoTile)
ActRiichi(t) == Action("RIICHI", NoTile, <<>>, "NONE", t, NoTile)
ActSpecialDraw == Action("SPECIAL_DRAW", NoTile, <<>>, "NONE", NoTile, NoTile)

\* PlayerState.__init__ / reset_hand
PlayerState(i, sc) ==
  [score |-> sc, seat_wind |-> NoneIdx, hand |-> <<>>, drawn_tile |-> NoTile,
   melds |-> <<>>, discards |-> <<>>, riichi_declared |-> FALSE,
   riichi_turn |-> 0 - 1, ippatsu_chance |-> FALSE, is_menzen |-> TRUE]

reset_hand(p) ==
  [p EXCEPT !.hand = <<>>, !.drawn_tile = NoTile, !.melds = <<>>,
            !.discards = <<>>, !.riichi_declared = FALSE,
            !.riichi_turn = 0 - 1, !.ippatsu_chance = FALSE,
            !.is_menzen = TRUE]

LastAction(ty, p, a) == [type |-> ty, player |-> p, action_obj |-> a]
NoLastAction == LastAction("NONE", NoneIdx, NoAction)

\* ------------------------------------------------------------------------
\* State
\* ------------------------------------------------------------------------
VARIABLES
  players,                    \* GameState.players[i] : PlayerState
  live_tiles,                 \* Wall.live_tiles
  dead_wall_tiles,            \* Wall.dead_wall_tiles
  replacement_tiles_drawn,    \* Wall.replacement_tiles_drawn
  dora_indicators,            \* Wall.dora_indicators
  ura_dora_indicators,        \* Wall.ura_dora_indicators
  round_wind, round_number, honba, riichi_sticks, dealer_index,
  current_player_index, game_phase,
  last_discarded_tile, last_discard_player_index, last_action_info,
  response_declarations,      \* GameState._response_declarations (insertion order)
  responders_to_prompt,       \* GameState._responders_to_prompt
  responded_to_current_discard,
  turn_number,
  raised,                     \* the last call ended in an uncaught exception
  twin,                       \* a second instance reset with the same seed
  resolve_input,              \* arguments of a resolve_response_priorities call
  resolve_output,             \* and what the call returned
  game_length,                \* RulesEngine.config["game_rules"]["game_length"]
  hand_outcome_info,          \* what get_hand_outcome returned to the last step
  game_is_over,               \* what is_game_over returned to the last step
  query_input,                \* arguments of a hand-analysis call
  query_output,               \* and what the call returned
  candidates_state,           \* the state MahjongEnv.current_candidates was
                              \* generated for (NoCandidates: the list is [])
  hands_dealt                 \* MahjongEnv.reset calls made so far

vars ==
  << players, live_tiles, dead_wall_tiles, replacement_tiles_drawn,
     dora_indicators, ura_dora_indicators, round_wind, round_number, honba,
     riichi_sticks, dealer_index, current_player_index, game_phase,
     last_discarded_tile, last_discard_player_index, last_action_info,
     response_declarations, responders_to_prompt,
     responded_to_current_discard, turn_number, raised, twin,
     resolve_input, resolve_output, game_length, hand_outcome_info,
     game_is_over, query_input, query_output, candidates_state,
     hands_dealt >>

\* The GameState object (with its Wall) as one value.
GS ==
  [players |-> players, live_tiles |-> live_tiles,
   dead_wall_tiles |-> dead_wall_tiles,
   replacement_tiles_drawn |-> replacement_tiles_drawn,
   dora_indicators |-> dora_indicators,
   ura_dora_indicators |-> ura_dora_indicators,
   round_wind |-> round_wind, round_number |-> round_number,
   honba |-> honba, riichi_sticks |-> riichi_sticks,
   dealer_index |-> dealer_index,
   current_player_index |-> current_player_index,
   game_phase |-> game_phase,
   last_discarded_tile |-> last_discarded_tile,
   last_discard_player_index |-> last_discard_player_index,
   last_action_info |-> last_action_info,
   response_declarations |-> response_declarations,
   responders_to_prompt |-> responders_to_prompt,
   responded_to_current_discard |-> responded_to_current_discard,
   turn_number |-> turn_number, raised |-> raised]

\* GameState.__init__ writes _response_declarations, _responders_to_prompt
\* and _responded_to_current_discard as annotated local names: the object
\* has no such attributes until a discard or a draw transition assigns
\* them.  These values stand for the three missing attributes.
Unset == 0 - 3
UnsetDeclarations == << [seat |-> Unset, action |-> NoAction] >>
UnsetQueue == << Unset >>
UnsetSeats == { Unset }

\* GameState.__init__ (with Wall.__init__ and PlayerState.__init__)
GameState__init__ ==
  [players |-> [i \in Seats |-> PlayerState(i, initial_score)],
   live_tiles |-> <<>>, dead_wall_tiles |-> <<>>,
   replacement_tiles_drawn |-> 0,
   dora_indicators |-> <<>>, ura_dora_indicators |-> <<>>,
   round_wind |-> 0, round_number |-> 1, honba |-> 0, riichi_sticks |-> 0,
   dealer_index |-> 0, current_player_index |-> 0,
   game_phase |-> "GAME_START",
   last_discarded_tile |-> NoTile, last_discard_player_index |-> 0 - 1,
   last_action_info |-> NoLastAction,
   response_declarations |-> UnsetDeclarations,
   responders_to_prompt |-> UnsetQueue,
   responded_to_current_discard |-> UnsetSeats,
   turn_number |-> 0, raised |-> FALSE]

\* Wall.shuffle_and_setup with the shuffled order given
shuffle_and_setup(s, order) ==
  LET num_live == Len(order) - NUM_DEAD_WALL
      dead == SubSeq(order, num_live + 1, Len(order))
      ok == 4 < Len(dead) /\ 5 < Len(dead)
  IN  [s EXCEPT !.live_tiles = SubSeq(order, 1, num_live),
                !.dead_wall_tiles = dead,
                !.replacement_tiles_drawn = 0,
                !.dora_indicators = IF ok THEN <<dead[5]>> ELSE <<>>,
                !.ura_dora_indicators = IF ok THEN <<dead[6]>> ELSE <<>>]

\* GameState.reset_new_hand; the wall always holds 136 tiles, so the 53
\* draws of the deal never find it empty.
reset_new_hand(s0, order) ==
  LET d == s0.dealer_index
      s1 == shuffle_and_setup(s0, order)
      dealt(i) == SortedTiles(SubSeq(s1.live_tiles, HAND_SIZE * i + 1,
                                     HAND_SIZE * (i + 1)))
      first_draw == s1.live_tiles[HAND_SIZE * num_players + 1]
      ps == [i \in Seats |->
               [reset_hand(s0.players[i]) EXCEPT
                  !.seat_wind = (i - d + num_players) % num_players,
                  !.hand = dealt(i),
                  !.drawn_tile = IF i = d THEN first_draw ELSE NoTile]]
  IN  [s1 EXCEPT !.players = ps,
                 !.live_tiles = SubSeq(s1.live_tiles,
                                       HAND_SIZE * num_players + 2,
                                       Len(s1.live_tiles)),
                 !.last_discarded_tile = NoTile,
                 !.last_discard_player_index = 0 - 1,
                 !.last_action_info = LastAction("PASS", NoneIdx, NoAction),
                 !.turn_number = 1,
                 !.current_player_index = d,
                 !.game_phase = "PLAYER_DISCARD",
                 !.raised = FALSE]


\* ------------------------------------------------------------------------
\* RulesEngine (rules.py): winning shapes
\* ------------------------------------------------------------------------
TileValues == 0 .. (NUM_TILE_VALUES - 1)
terminal_honor_values == {0, 8, 9, 17, 18, 26} \cup (27 .. 33)

\* Counter(t.value for t in tiles)
ValueCounts(tiles) ==
  LET RECURSIVE Counted(_)
      Counted(n) ==
        IF n = 0 THEN [v \in TileValues |-> 0]
        ELSE [Counted(n - 1) EXCEPT ![tiles[n].value] = @ + 1]
  IN  Counted(Len(tiles))

CountSum(c) ==
  LET RECURSIVE Sum(_)
      Sum(v) == IF v < 0 THEN 0 ELSE c[v] + Sum(v - 1)
  IN  Sum(NUM_TILE_VALUES - 1)

\* tile for meld in melds for tile in meld["tiles"]
RECURSIVE MeldTiles(_)
MeldTiles(melds) ==
  IF melds = <<>> THEN <<>> ELSE Head(melds).tiles \o MeldTiles(Tail(melds))

RECURSIVE _find_standard_melds(_, _)
_find_standard_melds(tile_counts, melds_to_find) ==
  IF melds_to_find = 0 THEN CountSum(tile_counts) = 0
  ELSE IF CountSum(tile_counts) < melds_to_find * 3 THEN FALSE
  ELSE
    LET RECURSIVE FirstPresent(_)
        FirstPresent(v) ==
          IF tile_counts[v] > 0 THEN v ELSE FirstPresent(v + 1)
        min_val == FirstPresent(0)
        can_form_sequence == min_val < 27 /\ min_val % 9 <= 6
    IN  \/ /\ tile_counts[min_val] >= 3
           /\ _find_standard_melds(
                [tile_counts EXCEPT ![min_val] = @ - 3], melds_to_find - 1)
        \/ /\ can_form_sequence
           /\ tile_counts[min_val + 1] > 0
           /\ tile_counts[min_val + 2] > 0
           /\ _find_standard_melds(
                [tile_counts EXCEPT ![min_val] = @ - 1,
                                    ![min_val + 1] = @ - 1,
                                    ![min_val + 2] = @ - 1],
                melds_to_find - 1)

_is_seven_pairs_raw(hand_tiles, melds) ==
  /\ melds = <<>>
  /\ Len(hand_tiles) = 14
  /\ LET kinds == {hand_tiles[i] : i \in DOMAIN hand_tiles}
     IN  /\ Cardinality(kinds) = 7
         /\ \A k \in kinds : SeqCount(hand_tiles, k) = 2

_is_kokushi_raw(hand_tiles, melds) ==
  /\ melds = <<>>
  /\ Len(hand_tiles) = 14
  /\ LET counts == ValueCounts(hand_tiles)
     IN  /\ \A v \in terminal_honor_values : counts[v] > 0
         /\ \A v \in terminal_honor_values : counts[v] \in {1, 2}
         /\ \A v \in TileValues \ terminal_honor_values : counts[v] = 0
         /\ Cardinality({v \in terminal_honor_values : counts[v] = 2}) = 1
         /\ Cardinality({v \in terminal_honor_values : counts[v] = 1}) = 12

_check_basic_win_shape(hand_tiles, melds) ==
  LET all_tiles_in_hand == hand_tiles \o MeldTiles(melds)
      value_counts == ValueCounts(all_tiles_in_hand)
  IN  /\ Len(all_tiles_in_hand) = 14
      /\ \/ (melds = <<>> /\ _is_kokushi_raw(hand_tiles, melds))
         \/ (melds = <<>> /\ _is_seven_pairs_raw(hand_tiles, melds))
         \/ \E pair_value \in TileValues :
              /\ value_counts[pair_value] >= 2
              /\ _find_standard_melds(
                   [value_counts EXCEPT ![pair_value] = @ - 2], 4)

is_tenpai(hand_tiles, melds) ==
  LET all_current_tiles == hand_tiles \o MeldTiles(melds)
      current_value_counts == ValueCounts(all_current_tiles)
  IN  /\ Len(all_current_tiles) = 13
      /\ \E v \in TileValues :
           /\ current_value_counts[v] < 4
           /\ _check_basic_win_shape(hand_tiles \o <<T(v)>>, melds)


\* ------------------------------------------------------------------------
\* RulesEngine (rules.py): candidate actions
\* ------------------------------------------------------------------------
\* First occurrences of a list, in order (the `processed` set idiom).
Dedup(s) == AtPositions(s, {i \in DOMAIN s : Occurrence(s, i) = 1})

\* player.hand + ([player.drawn_tile] if player.drawn_tile else [])
full_hand_tiles(player) ==
  player.hand \o (IF player.drawn_tile # NoTile THEN <<player.drawn_tile>>
                  ELSE <<>>)

CountValue(tiles, v) == Cardinality({i \in DOMAIN tiles : tiles[i].value = v})

FirstWithValue(tiles, v) ==
  tiles[CHOOSE i \in DOMAIN tiles :
          /\ tiles[i].value = v
          /\ \A j \in DOMAIN tiles : tiles[j].value = v => i <= j]

_generate_discard_actions(player) ==
  LET kinds == Dedup(full_hand_tiles(player))
  IN  [i \in DOMAIN kinds |-> ActDiscard(kinds[i])]

\* _find_self_kans: four equal Tile objects make it build
\* Action(type=KAN, kan_type=CLOSED) without a tile, which Action.__post_init__
\* rejects with ValueError.  The added-kan scan compares meld["type"] (the
\* strings "pon" / "chi" / "kan_open") with ActionType.PON and never matches,
\* so when nothing is raised the result is the empty list.
_find_self_kans_raises(player) ==
  LET full == full_hand_tiles(player)
  IN  \E i \in DOMAIN full : SeqCount(full, full[i]) = 4

\* _is_furiten and has_at_least_one_yaku are placeholders returning False
\* and True.
_is_furiten(player, win_tile) == FALSE
has_at_least_one_yaku(hand, melds, win_tile) == TRUE

_can_tsumo(player) ==
  /\ player.drawn_tile # NoTile
  /\ _check_basic_win_shape(player.hand \o <<player.drawn_tile>>, player.melds)
  /\ has_at_least_one_yaku(player.hand \o <<player.drawn_tile>>,
                           player.melds, player.drawn_tile)

_can_ron(player, target_tile) ==
  /\ target_tile # NoTile
  /\ _check_basic_win_shape(SortedTiles(player.hand \o <<target_tile>>),
                            player.melds)
  /\ ~_is_furiten(player, target_tile)
  /\ has_at_least_one_yaku(player.hand, player.melds, target_tile)

_can_pon(player, target_tile) ==
  /\ ~player.riichi_declared
  /\ CountValue(player.hand, target_tile.value) >= 2

_can_open_kan(player, target_tile) ==
  /\ ~player.riichi_declared
  /\ CountValue(player.hand, target_tile.value) >= 3

_can_declare_riichi(player, s) ==
  /\ player.is_menzen
  /\ player.score >= 1000
  /\ Len(s.live_tiles) >= 4
  /\ ~player.riichi_declared

_can_declare_kyuushu_kyuuhai(player, s) ==
  /\ s.turn_number = 1
  /\ player.is_menzen
  /\ Len(full_hand_tiles(player)) = 14
  /\ LET full == full_hand_tiles(player)
     IN  Cardinality({full[i].value : i \in DOMAIN full}
                     \cap terminal_honor_values) >= 9

_find_riichi_discards(player, s) ==
  IF ~_can_declare_riichi(player, s) THEN <<>>
  ELSE LET possible_discards == full_hand_tiles(player)
           Tenpai(t) == is_tenpai(RemoveFirst(possible_discards, t),
                                  player.melds)
       IN  SelectSeq(Dedup(possible_discards), Tenpai)

_find_chi_actions(player, discarded_tile) ==
  IF discarded_tile.value >= 27 \/ player.riichi_declared THEN <<>>
  ELSE
    LET hand_tiles == player.hand
        tv == discarded_tile.value
        Has(v) == CountValue(hand_tiles, v) > 0
        Combo(lo, hi) == << FirstWithValue(hand_tiles, lo),
                            FirstWithValue(hand_tiles, hi) >>
        p1 == IF tv % 9 >= 2 /\ Has(tv - 1) /\ Has(tv - 2)
              THEN << ActChi(discarded_tile, Combo(tv - 2, tv - 1)) >>
              ELSE <<>>
        p2 == IF tv % 9 >= 1 /\ tv % 9 <= 7 /\ Has(tv - 1) /\ Has(tv + 1)
              THEN << ActChi(discarded_tile, Combo(tv - 1, tv + 1)) >>
              ELSE <<>>
        p3 == IF tv % 9 <= 6 /\ Has(tv + 1) /\ Has(tv + 2)
              THEN << ActChi(discarded_tile, Combo(tv + 1, tv + 2)) >>
              ELSE <<>>
    IN  Dedup(p1 \o p2 \o p3)

\* The sections of generate_candidate_actions, in the order it appends them.
\* PLAYER_DISCARD: TSUMO, then (unless TSUMO) RIICHI and DISCARD, then
\* SPECIAL_DRAW.
tsumo_candidates(player) ==
  IF _can_tsumo(player) THEN << ActTsumo(player.drawn_tile) >> ELSE <<>>

riichi_candidates(player, s) ==
  IF _can_tsumo(player) THEN <<>>
  ELSE LET rd == _find_riichi_discards(player, s)
       IN  [i \in DOMAIN rd |-> ActRiichi(rd[i])]

discard_candidates(player) ==
  IF _can_tsumo(player) THEN <<>> ELSE _generate_discard_actions(player)

special_draw_candidates(player, s) ==
  IF /\ s.turn_number = 1
     /\ player.is_menzen
     /\ _can_declare_kyuushu_kyuuhai(player, s)
  THEN << ActSpecialDraw >> ELSE <<>>

\* WAITING_FOR_RESPONSE: RON, then (unless in riichi) PON, KAN and, for the
\* seat after the discarder, CHI; then PASS.
ron_candidates(player, last_discard) ==
  IF _can_ron(player, last_discard)
  THEN << ActRon(last_discard) >> ELSE <<>>

pon_candidates(player, last_discard) ==
  IF ~player.riichi_declared /\ _can_pon(player, last_discard)
  THEN << ActPon(T(last_discard.value)) >> ELSE <<>>

kan_candidates(player, last_discard) ==
  IF ~player.riichi_declared /\ _can_open_kan(player, last_discard)
  THEN << ActKan(T(last_discard.value), "OPEN") >> ELSE <<>>

chi_candidates(s, player_index) ==
  IF /\ ~s.players[player_index].riichi_declared
     /\ (s.last_discard_player_index + 1) % num_players = player_index
  THEN _find_chi_actions(s.players[player_index], s.last_discarded_tile)
  ELSE <<>>

\* The candidates of one action type.
candidates_of_type(s, player_index, ty) ==
  IF s.game_phase = "PLAYER_DISCARD" THEN
    IF player_index # s.current_player_index THEN <<>>
    ELSE
      CASE ty = "TSUMO" -> tsumo_candidates(s.players[player_index])
        [] ty = "RIICHI" -> riichi_candidates(s.players[player_index], s)
        [] ty = "DISCARD" -> discard_candidates(s.players[player_index])
        [] ty = "SPECIAL_DRAW" ->
             special_draw_candidates(s.players[player_index], s)
        [] OTHER -> <<>>
  ELSE IF s.game_phase = "WAITING_FOR_RESPONSE" THEN
    IF player_index = s.last_discard_player_index THEN <<>>
    ELSE IF s.last_discarded_tile = NoTile
    THEN IF ty = "PASS" THEN << ActPass >> ELSE <<>>
    ELSE
      CASE ty = "RON" ->
             ron_candidates(s.players[player_index], s.last_discarded_tile)
        [] ty = "PON" ->
             pon_candidates(s.players[player_index], s.last_discarded_tile)
        [] ty = "KAN" ->
             kan_candidates(s.players[player_index], s.last_discarded_tile)
        [] ty = "CHI" -> chi_candidates(s, player_index)
        [] ty = "PASS" -> << ActPass >>
        [] OTHER -> <<>>
  ELSE <<>>

\* The result of a call that may raise: the flag and, when it did not, the
\* returned list.
Returned(list) == [raised |-> FALSE, list |-> list]
Raised == [raised |-> TRUE, list |-> <<>>]

\* generate_candidate_actions raises when _find_self_kans does.
candidates_raise(s, player_index) ==
  /\ s.game_phase = "PLAYER_DISCARD"
  /\ player_index = s.current_player_index
  /\ _find_self_kans_raises(s.players[player_index])

generate_candidate_actions(s, player_index) ==
  IF s.game_phase = "PLAYER_DISCARD" THEN
    IF player_index # s.current_player_index THEN Returned(<<>>)
    ELSE IF _find_self_kans_raises(s.players[player_index]) THEN Raised
    ELSE Returned(tsumo_candidates(s.players[player_index])
                    \o riichi_candidates(s.players[player_index], s)
                    \o discard_candidates(s.players[player_index])
                    \o special_draw_candidates(s.players[player_index], s))
  ELSE IF s.game_phase = "WAITING_FOR_RESPONSE" THEN
    IF player_index = s.last_discard_player_index THEN Returned(<<>>)
    ELSE IF s.last_discarded_tile = NoTile THEN Returned(<< ActPass >>)
    ELSE Returned(
           ron_candidates(s.players[player_index], s.last_discarded_tile)
             \o pon_candidates(s.players[player_index], s.last_discarded_tile)
             \o kan_candidates(s.players[player_index], s.last_discarded_tile)
             \o chi_candidates(s, player_index)
             \o << ActPass >>)
  ELSE Returned(<<>>)

\* Whether the action is among the candidates of the seat, decided from the
\* candidates of its type alone.
IsCandidate(s, p, a) ==
  /\ p = s.current_player_index
  /\ ~candidates_raise(s, p)
  /\ InSeq(candidates_of_type(s, p, a.type), a)


\* ------------------------------------------------------------------------
\* Wall draws (game_state.py Wall)
\* ------------------------------------------------------------------------
\* Wall.draw_replacement_tile: the slot is read, the counter advances, the
\* tile stays in dead_wall_tiles.
draw_replacement_unlimited(s) ==
  [tile |-> s.dead_wall_tiles[s.replacement_tiles_drawn + 1],
   state |-> [s EXCEPT !.replacement_tiles_drawn = @ + 1]]

draw_replacement_tile(s) ==
  IF /\ s.replacement_tiles_drawn < NUM_REPLACEMENT_TILES
     /\ s.replacement_tiles_drawn < Len(s.dead_wall_tiles)
  THEN [tile |-> s.dead_wall_tiles[s.replacement_tiles_drawn + 1],
        state |-> [s EXCEPT !.replacement_tiles_drawn = @ + 1]]
  ELSE [tile |-> NoTile, state |-> s]

\* Wall.reveal_new_dora
reveal_dora_only(s) ==
  [s EXCEPT !.dora_indicators =
              Append(@, s.dead_wall_tiles[5 + 2 * Len(s.dora_indicators)])]

reveal_new_dora(s) ==
  LET num_revealed == Len(s.dora_indicators)
      new_dora_index == 4 + (num_revealed * 2)
      new_ura_dora_index == new_dora_index + 1
  IN  IF /\ num_revealed < 1 + NUM_REPLACEMENT_TILES
         /\ new_dora_index < Len(s.dead_wall_tiles)
         /\ new_ura_dora_index < Len(s.dead_wall_tiles)
      THEN [s EXCEPT
              !.dora_indicators =
                 Append(@, s.dead_wall_tiles[new_dora_index + 1]),
              !.ura_dora_indicators =
                 Append(@, s.dead_wall_tiles[new_ura_dora_index + 1])]
      ELSE s

\* ------------------------------------------------------------------------
\* GameState helpers (game_state.py)
\* ------------------------------------------------------------------------
\* _remove_tiles_from_hand: all-or-nothing removal of exact Tile objects.
_remove_tiles_from_hand(player, tiles_to_remove) ==
  LET enough == \A i \in DOMAIN tiles_to_remove :
                  SeqCount(player.hand, tiles_to_remove[i])
                    >= SeqCount(tiles_to_remove, tiles_to_remove[i])
  IN  IF enough
      THEN [ok |-> TRUE,
            player |-> [player EXCEPT
                          !.hand = RemoveAllOf(@, tiles_to_remove)]]
      ELSE [ok |-> FALSE, player |-> player]

_perform_discard_logic(player, tile_to_discard) ==
  LET is_discarding_drawn_tile ==
        player.drawn_tile # NoTile /\ tile_to_discard = player.drawn_tile
      is_discarding_from_hand == InSeq(player.hand, tile_to_discard)
  IN  IF ~(is_discarding_drawn_tile \/ is_discarding_from_hand)
      THEN [ok |-> FALSE, player |-> player]
      ELSE IF is_discarding_drawn_tile
      THEN [ok |-> TRUE, player |-> [player EXCEPT !.drawn_tile = NoTile]]
      ELSE LET merged ==
                 [player EXCEPT
                    !.hand = IF player.drawn_tile # NoTile
                             THEN Append(@, player.drawn_tile) ELSE @,
                    !.drawn_tile = NoTile]
           IN  _remove_tiles_from_hand(merged, <<tile_to_discard>>)

\* _build_response_prompt_queue: the seats after the discarder, in turn
\* order, that have a candidate other than PASS.
HasCall(list) ==
  \E k \in DOMAIN list : list[k].type \in {"CHI", "PON", "KAN", "RON"}

\* The queue built against the turn order.
_build_response_prompt_queue_reversed(s) ==
  LET discarder == s.last_discard_player_index
      Seat(i) == (discarder + num_players - 1 - i) % num_players
      RECURSIVE Build(_)
      Build(i) ==
        IF i >= num_players - 1 THEN <<>>
        ELSE (IF HasCall(generate_candidate_actions(s, Seat(i)).list)
              THEN << Seat(i) >> ELSE <<>>) \o Build(i + 1)
  IN  IF discarder = NoneIdx THEN <<>> ELSE Build(0)

_build_response_prompt_queue(s) ==
  LET discarder == s.last_discard_player_index
      Seat(i) == (discarder + 1 + i) % num_players
      RECURSIVE Build(_)
      Build(i) ==
        IF i >= num_players - 1 THEN <<>>
        ELSE (IF HasCall(generate_candidate_actions(s, Seat(i)).list)
              THEN << Seat(i) >> ELSE <<>>) \o Build(i + 1)
  IN  IF discarder = NoneIdx THEN <<>> ELSE Build(0)

\* _response_declarations is a dict in insertion order: a list of
\* (seat, action) entries with distinct seats.
Declaration(seat, a) == [seat |-> seat, action |-> a]
DeclaredBy(decls, seat) == \E k \in DOMAIN decls : decls[k].seat = seat
DeclarationOf(decls, seat) ==
  decls[CHOOSE k \in DOMAIN decls : decls[k].seat = seat].action
SetDeclaration(decls, seat, a) ==
  IF DeclaredBy(decls, seat)
  THEN [k \in DOMAIN decls |->
          IF decls[k].seat = seat THEN Declaration(seat, a) ELSE decls[k]]
  ELSE Append(decls, Declaration(seat, a))

Resolution(a, p) == [action |-> a, player |-> p]
NoResolution == Resolution(NoAction, NoneIdx)
\* The AttributeError of a resolution that reads _response_declarations
\* before any discard has created it.
ResolutionRaised == Resolution(NoAction, Unset)


\* ScanReverseTurn with the scan running in turn order, (discarder + 1) first.
ScanTurnOrder(decls, discarder, types) ==
  LET Seat(i) == (discarder + i) % num_players
      Hit(i) == /\ DeclaredBy(decls, Seat(i))
                /\ DeclarationOf(decls, Seat(i)).type \in types
      RECURSIVE Scan(_)
      Scan(i) ==
        IF i >= num_players THEN NoResolution
        ELSE IF Hit(i)
             THEN Resolution(DeclarationOf(decls, Seat(i)), Seat(i))
             ELSE Scan(i + 1)
  IN  Scan(1)

\* The seats (discarder - 1), (discarder - 2), (discarder - 3) mod 4 in that
\* order: the first one whose declaration has one of the given types.
ScanReverseTurn(decls, discarder, types) ==
  LET Seat(i) == (discarder - i) % num_players
      Hit(i) == /\ DeclaredBy(decls, Seat(i))
                /\ DeclarationOf(decls, Seat(i)).type \in types
      RECURSIVE Scan(_)
      Scan(i) ==
        IF i >= num_players THEN NoResolution
        ELSE IF Hit(i)
             THEN Resolution(DeclarationOf(decls, Seat(i)), Seat(i))
             ELSE Scan(i + 1)
  IN  Scan(1)

\* _resolve_response_priorities returning the declaration recorded first
\* that is not a PASS, whatever its class.
_resolve_first_recorded(decls, discarder) ==
  LET calls == SelectSeq(decls, LAMBDA e : e.action.type # "PASS")
  IN  IF discarder = NoneIdx \/ calls = <<>> THEN NoResolution
      ELSE Resolution(calls[1].action, calls[1].seat)

\* GameState._resolve_response_priorities /
\* ActionValidator.resolve_response_priorities
_resolve_response_priorities(decls, discarder) ==
  LET ron == ScanReverseTurn(decls, discarder, {"RON"})
      pon_kan == ScanReverseTurn(decls, discarder, {"PON", "KAN"})
      next_player_index == (discarder + 1) % num_players
  IN  IF discarder = NoneIdx THEN NoResolution
      ELSE IF decls = UnsetDeclarations THEN ResolutionRaised
      ELSE IF ron # NoResolution THEN ron
      ELSE IF pon_kan # NoResolution THEN pon_kan
      ELSE IF /\ DeclaredBy(decls, next_player_index)
              /\ DeclarationOf(decls, next_player_index).type = "CHI"
           THEN Resolution(DeclarationOf(decls, next_player_index),
                           next_player_index)
           ELSE NoResolution

Meld(ty, tiles) == [type |-> ty, tiles |-> tiles]

\* _apply_winning_response
_apply_winning_response(s, winning_action, winning_player_index) ==
  LET player == s.players[winning_player_index]
      discarded_tile == s.last_discarded_tile
      wt == winning_action.tile
      Cleanup(t) ==
        [t EXCEPT !.last_discarded_tile = NoTile,
                  !.last_discard_player_index = NoneIdx,
                  !.response_declarations = <<>>,
                  !.responders_to_prompt = <<>>,
                  !.responded_to_current_discard = {}]
      Called(ty, meld_tiles, from_hand) ==
        [_remove_tiles_from_hand(player, from_hand).player EXCEPT
           !.melds = Append(@, Meld(ty, SortedTiles(meld_tiles)))]
  IN  IF discarded_tile = NoTile THEN s
      ELSE IF winning_action.type = "RON" THEN
        Cleanup([s EXCEPT !.game_phase = "HAND_OVER_SCORES",
                          !.current_player_index = winning_player_index])
      ELSE IF winning_action.type = "PON" THEN
        Cleanup([s EXCEPT
                   !.players[winning_player_index] =
                      Called("pon", <<discarded_tile, wt, wt>>, <<wt, wt>>),
                   !.game_phase = "PLAYER_DISCARD",
                   !.current_player_index = winning_player_index])
      ELSE IF winning_action.type = "KAN" THEN
        IF winning_action.kan_type = "OPEN" THEN
          IF s.last_discard_player_index = NoneIdx THEN s
          ELSE
            LET melded == [s EXCEPT
                             !.players[winning_player_index] =
                                Called("kan_open",
                                       <<discarded_tile, wt, wt, wt>>,
                                       <<wt, wt, wt>>)]
                rinshan == draw_replacement_tile(melded)
                drawn == [rinshan.state EXCEPT
                            !.players[winning_player_index].drawn_tile =
                               rinshan.tile]
            IN  Cleanup([reveal_new_dora(drawn) EXCEPT
                           !.game_phase = "PLAYER_DISCARD",
                           !.current_player_index = winning_player_index])
        ELSE s
      ELSE IF winning_action.type = "CHI" THEN
        Cleanup([s EXCEPT
                   !.players[winning_player_index] =
                      Called("chi",
                             <<discarded_tile>> \o winning_action.chi_tiles,
                             winning_action.chi_tiles),
                   !.game_phase = "PLAYER_DISCARD",
                   !.current_player_index = winning_player_index])
      ELSE Cleanup(s)

\* _handle_exhaustive_draw
_handle_exhaustive_draw(s) ==
  [s EXCEPT !.game_phase = "HAND_OVER_SCORES",
            !.current_player_index = 0 - 1]

\* _transition_to_next_draw_phase reading the tile at the head of the live
\* wall without popping it.
_transition_to_next_draw_phase_peek(s0) ==
  LET s == [s0 EXCEPT !.response_declarations = <<>>,
                      !.responders_to_prompt = <<>>,
                      !.responded_to_current_discard = {}]
      original_discarder_index == s.last_action_info.player
      next_drawer_index ==
        IF original_discarder_index = NoneIdx
        THEN (s.current_player_index + 1) % num_players
        ELSE (original_discarder_index + 1) % num_players
  IN  IF Len(s.live_tiles) > 0
      THEN [s EXCEPT !.players[next_drawer_index].drawn_tile =
                        Head(s.live_tiles),
                     !.game_phase = "PLAYER_DISCARD",
                     !.current_player_index = next_drawer_index]
      ELSE _handle_exhaustive_draw(s)

\* _transition_to_next_draw_phase: the next drawer is the seat after the one
\* recorded in last_action_info, i.e. after the caller of the apply_action in
\* progress.
_transition_to_next_draw_phase(s0) ==
  LET s == [s0 EXCEPT !.response_declarations = <<>>,
                      !.responders_to_prompt = <<>>,
                      !.responded_to_current_discard = {}]
      original_discarder_index == s.last_action_info.player
      next_drawer_index ==
        IF original_discarder_index = NoneIdx
        THEN (s.current_player_index + 1) % num_players
        ELSE (original_discarder_index + 1) % num_players
  IN  IF Len(s.live_tiles) > 0
      THEN [s EXCEPT !.live_tiles = Tail(@),
                     !.players[next_drawer_index].drawn_tile =
                        Head(s.live_tiles),
                     !.game_phase = "PLAYER_DISCARD",
                     !.current_player_index = next_drawer_index]
      ELSE _handle_exhaustive_draw(s)


\* ------------------------------------------------------------------------
\* GameState.apply_action
\* ------------------------------------------------------------------------
\* An uncaught exception: the assignments made so far stay.
Raise(s) == [s EXCEPT !.raised = TRUE]

\* The end of the DISCARD branch: the turn goes to the head of the prompt
\* queue, or straight to the next draw when the queue is empty.
PromptOrDraw(s, queue) ==
  IF queue # <<>>
  THEN [s EXCEPT !.responders_to_prompt = queue,
                 !.current_player_index = queue[1]]
  ELSE _transition_to_next_draw_phase(
         [s EXCEPT !.responders_to_prompt = queue])

\* The DISCARD branch after the tile has left the hand: record the discard,
\* open the response phase and build the prompt queue.
OpenResponsePhase(s, player_index, tile_to_discard) ==
  LET s1 == [s EXCEPT !.last_discarded_tile = tile_to_discard,
                      !.last_discard_player_index = player_index,
                      !.game_phase = "WAITING_FOR_RESPONSE",
                      !.response_declarations = <<>>,
                      !.responded_to_current_discard = {}]
  IN  PromptOrDraw(s1, _build_response_prompt_queue(s1))

ApplyDiscard(s, action, player_index) ==
  LET player == s.players[player_index]
      r == _perform_discard_logic(player, action.tile)
      discarded ==
        [r.player EXCEPT
           !.discards = Append(@, action.tile),
           !.ippatsu_chance = IF r.player.riichi_declared THEN FALSE ELSE @]
  IN  IF ~r.ok THEN [s EXCEPT !.players[player_index] = r.player]
      ELSE OpenResponsePhase([s EXCEPT !.players[player_index] = discarded],
                             player_index, action.tile)

\* TSUMO: a hand that is no winning shape is refused; otherwise the boolean
\* returned by _check_basic_win_shape is used as a dict (win_info.get) and
\* the call ends in AttributeError.
ApplyTsumo(s, action, player_index) ==
  LET player == s.players[player_index]
  IN  IF ~_check_basic_win_shape(full_hand_tiles(player), player.melds)
      THEN s ELSE Raise(s)

\* KAN in PLAYER_DISCARD: a missing or OPEN kan_type is refused; otherwise
\* validate_closed_kan / validate_added_kan are called with one argument too
\* many and the call ends in TypeError.
ApplySelfKan(s, action, player_index) ==
  IF action.kan_type \in {"NONE", "OPEN"} THEN s ELSE Raise(s)

\* RIICHI and SPECIAL_DRAW call RulesEngine.validate_riichi and
\* RulesEngine.validate_special_draw, which do not exist: AttributeError.
ApplyRiichi(s, action, player_index) == Raise(s)
ApplySpecialDraw(s, action, player_index) == Raise(s)

_is_response_action_valid(s, player_index, action) ==
  /\ s.game_phase = "WAITING_FOR_RESPONSE"
  /\ InSeq(generate_candidate_actions(s, player_index).list, action)

ApplyResponseAtOnce(s, action, player_index) ==
  IF ~_is_response_action_valid(s, player_index, action) \/ action.type = "PASS"
  THEN s
  ELSE _apply_winning_response(s, action, player_index)

ApplyResponse(s, action, player_index) ==
  IF ~_is_response_action_valid(s, player_index, action) THEN s
  ELSE
    LET queue == IF /\ s.responders_to_prompt # <<>>
                    /\ Head(s.responders_to_prompt) = player_index
                 THEN Tail(s.responders_to_prompt)
                 ELSE s.responders_to_prompt
        s1 == [s EXCEPT
                 !.response_declarations =
                    SetDeclaration(@, player_index, action),
                 !.responded_to_current_discard = @ \cup {player_index},
                 !.responders_to_prompt = queue]
        won == _resolve_response_priorities(s1.response_declarations,
                                            s1.last_discard_player_index)
    IN  IF s.response_declarations = UnsetDeclarations THEN Raise(s)
        ELSE IF queue = <<>>
        THEN IF won.action # NoAction
             THEN _apply_winning_response(s1, won.action, won.player)
             ELSE _transition_to_next_draw_phase(s1)
        ELSE [s1 EXCEPT !.current_player_index = queue[1]]

apply_action(s0, action, player_index) ==
  LET s == [s0 EXCEPT
              !.last_action_info =
                 LastAction(action.type, player_index, action),
              !.raised = FALSE]
  IN  IF player_index # s.current_player_index THEN s
      ELSE IF s.game_phase = "PLAYER_DISCARD" THEN
        CASE action.type = "DISCARD" -> ApplyDiscard(s, action, player_index)
          [] action.type = "TSUMO" -> ApplyTsumo(s, action, player_index)
          [] action.type = "KAN" -> ApplySelfKan(s, action, player_index)
          [] action.type = "RIICHI" -> ApplyRiichi(s, action, player_index)
          [] action.type = "SPECIAL_DRAW" ->
               ApplySpecialDraw(s, action, player_index)
          [] OTHER -> s
      ELSE IF s.game_phase = "WAITING_FOR_RESPONSE"
      THEN ApplyResponse(s, action, player_index)
      ELSE s


\* ------------------------------------------------------------------------
\* RulesEngine.get_hand_outcome (rules.py): how the hand ended, read from
\* last_action_info and the wall.  A RON record never carries "loser_index",
\* so the end type becomes SCORING_ERROR; a TSUMO record goes on to
\* _get_win_context, which reads a PlayerState attribute that does not exist
\* (AttributeError).
\* ------------------------------------------------------------------------
\* score_changes is a dict; a seat without an entry is left alone by
\* update_scores, which is a change of 0.
Outcome(end_type, winner_index, loser_index) ==
  [raised |-> FALSE, end_type |-> end_type, winner_index |-> winner_index,
   loser_index |-> loser_index, tenpai_players |-> <<>>,
   noten_players |-> <<>>, score_changes |-> [p \in Seats |-> 0]]
OutcomeRaised ==
  [raised |-> TRUE, end_type |-> "NONE", winner_index |-> NoneIdx,
   loser_index |-> NoneIdx, tenpai_players |-> <<>>,
   noten_players |-> <<>>, score_changes |-> [p \in Seats |-> 0]]
NoOutcome == Outcome("NONE", NoneIdx, NoneIdx)

SeatOrder == [i \in 1 .. num_players |-> i - 1]

\* bappu_payments with the two shares exchanged: a noten seat pays the
\* share of a tenpai seat and a tenpai seat receives that of a noten seat.
bappu_payments_exchanged(tenpai_indices, noten_indices) ==
  LET num_tenpai == Len(tenpai_indices)
      num_noten == Len(noten_indices)
  IN  IF 0 < num_tenpai /\ num_tenpai < num_players
      THEN [p \in Seats |->
              IF InSeq(noten_indices, p) THEN 0 - (3000 \div num_tenpai)
              ELSE 3000 \div num_noten]
      ELSE [p \in Seats |-> 0]

\* The no-ten penalty of the EXHAUSTIVE_DRAW branch: 3000 points go from the
\* noten seats to the tenpai seats when there are both.
bappu_payments(tenpai_indices, noten_indices) ==
  LET num_tenpai == Len(tenpai_indices)
      num_noten == Len(noten_indices)
  IN  IF 0 < num_tenpai /\ num_tenpai < num_players
      THEN [p \in Seats |->
              IF InSeq(noten_indices, p) THEN 0 - (3000 \div num_noten)
              ELSE 3000 \div num_tenpai]
      ELSE [p \in Seats |-> 0]

exhaustive_draw_outcome(tenpai_indices, noten_indices) ==
  [Outcome("EXHAUSTIVE_DRAW", NoneIdx, NoneIdx) EXCEPT
     !.tenpai_players = tenpai_indices,
     !.noten_players = noten_indices,
     !.score_changes = bappu_payments(tenpai_indices, noten_indices)]

get_hand_outcome(s) ==
  LET action_type == s.last_action_info.type
      player_index == s.last_action_info.player
      tenpai_indices ==
        SelectSeq(SeatOrder,
                  LAMBDA i : is_tenpai(s.players[i].hand, s.players[i].melds))
  IN  CASE action_type = "TSUMO" -> OutcomeRaised
        [] action_type = "RON" ->
             Outcome("SCORING_ERROR", player_index, NoneIdx)
        [] action_type = "SPECIAL_DRAW" ->
             Outcome("SPECIAL_DRAW", NoneIdx, NoneIdx)
        [] OTHER ->
             IF Len(s.live_tiles) = 0
             THEN exhaustive_draw_outcome(
                    tenpai_indices,
                    SelectSeq(SeatOrder,
                              LAMBDA i : ~InSeq(tenpai_indices, i)))
             ELSE Outcome("UNKNOWN", NoneIdx, NoneIdx)

\* update_scores that credits the gains and drops the losses.
update_scores_gains_only(s, score_changes) ==
  [s EXCEPT !.players =
     [p \in Seats |->
        [s.players[p] EXCEPT
           !.score = IF score_changes[p] > 0 THEN @ + score_changes[p] ELSE @]]]

\* GameState.update_scores
update_scores(s, score_changes) ==
  [s EXCEPT !.players =
     [p \in Seats |-> [s.players[p] EXCEPT !.score = @ + score_changes[p]]]]

\* ------------------------------------------------------------------------
\* RulesEngine.determine_next_hand_state (rules.py).  When the dealer
\* changes the first statement reads self.num_players, which RulesEngine
\* never sets (AttributeError); the rest of that branch is never reached.
\* ------------------------------------------------------------------------
NextHandState(dealer, wind, number, next_honba, sticks) ==
  [raised |-> FALSE, next_dealer_index |-> dealer, next_round_wind |-> wind,
   next_round_number |-> number, next_honba |-> next_honba,
   next_riichi_sticks |-> sticks]
NextHandStateRaised ==
  [raised |-> TRUE, next_dealer_index |-> NoneIdx, next_round_wind |-> 0,
   next_round_number |-> 0, next_honba |-> 0, next_riichi_sticks |-> 0]

dealer_changes(s, outcome) ==
  IF outcome.end_type \in {"TSUMO", "RON"}
  THEN outcome.winner_index # s.dealer_index
  ELSE IF outcome.end_type = "EXHAUSTIVE_DRAW"
  THEN ~InSeq(outcome.tenpai_players, s.dealer_index)
  ELSE FALSE

determine_next_hand_state(s, outcome) ==
  IF dealer_changes(s, outcome) THEN NextHandStateRaised
  ELSE NextHandState(s.dealer_index, s.round_wind, s.round_number,
                     s.honba + 1,
                     IF outcome.end_type \in {"TSUMO", "RON"} THEN 0
                     ELSE s.riichi_sticks)

\* GameState.apply_next_hand_state
apply_next_hand_state(s, n) ==
  [s EXCEPT !.dealer_index = n.next_dealer_index,
            !.round_wind = n.next_round_wind,
            !.round_number = n.next_round_number,
            !.honba = n.next_honba,
            !.riichi_sticks = n.next_riichi_sticks,
            !.game_phase = "HAND_OVER_SCORES"]

ROUND_WIND_SOUTH == 1

is_hand_over(s) == s.game_phase = "HAND_OVER_SCORES"

\* RulesEngine.is_game_over: the last wind is ROUND_WIND_SOUTH whatever the
\* configured game length.
is_game_over(s) ==
  \/ s.round_wind > ROUND_WIND_SOUTH /\ s.round_number = 1
  \/ \E p \in Seats : s.players[p].score < 0

\* What a step leaves behind: the state, the outcome it computed (NoOutcome
\* when the hand goes on or the step raised before computing it) and the
\* game-over flag.
StepResult(s, outcome, over) == [gs |-> s, outcome |-> outcome, over |-> over]

\* The settlement of MahjongEnv.step once the hand is over.
settle_next_hand(s, outcome) ==
  LET n == determine_next_hand_state(s, outcome)
      s1 == apply_next_hand_state(s, n)
  IN  IF n.raised THEN StepResult(Raise(s), outcome, FALSE)
      ELSE StepResult(s1, outcome, is_game_over(s1))

settle(s, outcome) ==
  IF outcome.raised THEN StepResult(Raise(s), NoOutcome, FALSE)
  ELSE settle_next_hand(update_scores(s, outcome.score_changes), outcome)

\* MahjongEnv._get_info: generate_candidate_actions for the seat to act.
\* When it raises, current_candidates keeps the list of the call before;
\* otherwise the list is the one of the state given.
_get_info_raises(s) == candidates_raise(s, s.current_player_index)

Informed(r, refreshed, info) ==
  [gs |-> r.gs, outcome |-> r.outcome, over |-> r.over,
   refreshed |-> refreshed, info |-> info]

\* MahjongEnv.step from the return of apply_action on: _get_info, then the
\* settlement when the hand is over.
step_after_action(s) ==
  IF s.raised THEN Informed(StepResult(s, NoOutcome, FALSE), FALSE, s)
  ELSE IF _get_info_raises(s)
  THEN Informed(StepResult(Raise(s), NoOutcome, FALSE), FALSE, s)
  ELSE IF ~is_hand_over(s)
  THEN Informed(StepResult(s, NoOutcome, FALSE), TRUE, s)
  ELSE Informed(settle(s, get_hand_outcome(s)), TRUE, s)

\* MahjongEnv.step with the action at the chosen index of
\* current_candidates, applied for the seat to act.
step(s, action) ==
  step_after_action(apply_action(s, action, s.current_player_index))

\* MahjongEnv.reset: reset_new_hand, then _get_info.
reset(s, order) ==
  LET n == reset_new_hand(s, order)
  IN  IF _get_info_raises(n)
      THEN [gs |-> Raise(n), refreshed |-> FALSE, info |-> n]
      ELSE [gs |-> n, refreshed |-> TRUE, info |-> n]

\* GameState.reset_game
reset_game(s) ==
  [s EXCEPT !.players = [i \in Seats |->
                           [s.players[i] EXCEPT !.score = initial_score]],
            !.round_wind = 0,
            !.round_number = 1,
            !.honba = 0,
            !.riichi_sticks = 0,
            !.dealer_index = 0,
            !.game_phase = "GAME_START",
            !.raised = FALSE]


\* ------------------------------------------------------------------------
\* Exploration bounds.  The seats choose freely among their candidates up to
\* the FreeTurns-th discard of a hand and the responses to it.  Afterwards a
\* seat that can win does, any other seat discards the tile it drew (its
\* first candidate when it drew none) and answers PASS.  Calls outside the
\* candidates are tried up to the responses to the MisuseTurns-th discard.
\* The environment is reset at most MaxHands times, before a game, after a
\* hand and within a hand up to the responses to the ResetTurns-th discard;
\* the free choices and the calls outside the candidates belong to the
\* first hand.
\* ------------------------------------------------------------------------
FreeTurns == 1
MisuseTurns == 1
MaxHands == 2
ResetTurns == 1

discards_made(s) ==
  Len(s.players[0].discards) + Len(s.players[1].discards)
    + Len(s.players[2].discards) + Len(s.players[3].discards)

\* ------------------------------------------------------------------------
\* Specification
\* ------------------------------------------------------------------------
SetGS(n) ==
  /\ players' = n.players
  /\ live_tiles' = n.live_tiles
  /\ dead_wall_tiles' = n.dead_wall_tiles
  /\ replacement_tiles_drawn' = n.replacement_tiles_drawn
  /\ dora_indicators' = n.dora_indicators
  /\ ura_dora_indicators' = n.ura_dora_indicators
  /\ round_wind' = n.round_wind
  /\ round_number' = n.round_number
  /\ honba' = n.honba
  /\ riichi_sticks' = n.riichi_sticks
  /\ dealer_index' = n.dealer_index
  /\ current_player_index' = n.current_player_index
  /\ game_phase' = n.game_phase
  /\ last_discarded_tile' = n.last_discarded_tile
  /\ last_discard_player_index' = n.last_discard_player_index
  /\ last_action_info' = n.last_action_info
  /\ response_declarations' = n.response_declarations
  /\ responders_to_prompt' = n.responders_to_prompt
  /\ responded_to_current_discard' = n.responded_to_current_discard
  /\ turn_number' = n.turn_number
  /\ raised' = n.raised

NoTwin == [game_phase |-> "NONE"]

\* MahjongEnv.current_candidates is the list generate_candidate_actions
\* returned to the last _get_info that did not raise.  The list is a
\* function of the state and the seat it was generated for, so the state is
\* what is kept; after MahjongEnv.__init__ the list is [], the list of a
\* state before the deal.
NoCandidates == GameState__init__

current_candidates ==
  generate_candidate_actions(candidates_state,
                             candidates_state.current_player_index).list

\* The candidates of one type in current_candidates.
Offered(ty) ==
  candidates_of_type(candidates_state, candidates_state.current_player_index,
                     ty)

\* The arguments and the result of a resolve_response_priorities call.
Call(decls, discarder) ==
  [declarations |-> decls, discarder_index |-> discarder]
NoCall == Call(<<>>, NoneIdx)
NotCalled == [called |-> FALSE, winner |-> NoResolution]

\* The arguments and the result of a hand-analysis call: the seat asked
\* about and the tile it would win on.
Query(player, tile) == [player |-> player, tile |-> tile]
NoQuery == Query(PlayerState(0, initial_score), NoTile)
NotQueried == [fn |-> "NONE", result |-> FALSE, waits |-> {}, raised |-> FALSE]

\* After construction: MahjongEnv.__init__ builds Wall, RulesEngine and
\* GameState.
Init ==
  /\ players = GameState__init__.players
  /\ live_tiles = <<>>
  /\ dead_wall_tiles = <<>>
  /\ replacement_tiles_drawn = 0
  /\ dora_indicators = <<>>
  /\ ura_dora_indicators = <<>>
  /\ round_wind = 0
  /\ round_number = 1
  /\ honba = 0
  /\ riichi_sticks = 0
  /\ dealer_index = 0
  /\ current_player_index = 0
  /\ game_phase = "GAME_START"
  /\ last_discarded_tile = NoTile
  /\ last_discard_player_index = 0 - 1
  /\ last_action_info = NoLastAction
  /\ response_declarations = UnsetDeclarations
  /\ responders_to_prompt = UnsetQueue
  /\ responded_to_current_discard = UnsetSeats
  /\ turn_number = 0
  /\ raised = FALSE
  /\ twin = NoTwin
  /\ resolve_input = NoCall
  /\ resolve_output = NotCalled
  /\ game_length = "hanchan"
  /\ hand_outcome_info = NoOutcome
  /\ game_is_over = FALSE
  /\ query_input = NoQuery
  /\ query_output = NotQueried
  /\ candidates_state = NoCandidates
  /\ hands_dealt = 0

\* MahjongEnv.reset(seed): the seed is not used and Wall.shuffle_and_setup
\* shuffles with the process-wide random generator, so each instance gets an
\* order of its own whatever the seed.  `twin` is a second instance,
\* reset with the same seed when this one is reset for the first time; it
\* is kept until the first step of this one.
Seeds == {11}

\* The state after MahjongEnv.reset with the shuffle leaving `order`.
Deal(order) ==
  LET r == reset(GS, order)
  IN  /\ SetGS(r.gs)
      /\ candidates_state' = IF r.refreshed THEN r.info ELSE candidates_state
      /\ hands_dealt' = hands_dealt + 1

\* The states of the second instance after its MahjongEnv.reset.
TwinResets == { reset(GameState__init__, order).gs : order \in TwinShuffles }

ResetPoint(s) ==
  \/ s.game_phase \in {"GAME_START", "HAND_OVER_SCORES"}
  \/ discards_made(s) <= ResetTurns

Reset ==
  /\ hands_dealt < MaxHands
  /\ ResetPoint(GS)
  /\ \E seed \in Seeds, order \in Shuffles,
        twin_state \in IF hands_dealt = 0 THEN TwinResets ELSE {NoTwin} :
       /\ Deal(order)
       /\ twin' = twin_state
  /\ UNCHANGED << resolve_input, resolve_output, game_length,
                  hand_outcome_info, game_is_over,
                  query_input, query_output >>

\* GameState.reset_game called on the environment's state.
ResetGame ==
  /\ ResetPoint(GS)
  /\ SetGS(reset_game(GS))
  /\ twin' = NoTwin
  /\ UNCHANGED << resolve_input, resolve_output, game_length,
                  hand_outcome_info, game_is_over,
                  query_input, query_output, candidates_state, hands_dealt >>

\* The candidates a seat chooses from when it plays by default.
DefaultDiscard(player) ==
  IF player.drawn_tile # NoTile
  THEN tsumo_candidates(player)
         \o SelectSeq(discard_candidates(player),
                      LAMBDA a : a.tile = player.drawn_tile)
  ELSE SubSeq(discard_candidates(player), 1, 1)

DefaultResponse(ron, pass) == IF ron # <<>> THEN ron ELSE pass

DefaultCandidates(s) ==
  IF s.game_phase = "PLAYER_DISCARD"
  THEN DefaultDiscard(s.players[s.current_player_index])
  ELSE DefaultResponse(candidates_of_type(s, s.current_player_index, "RON"),
                       candidates_of_type(s, s.current_player_index, "PASS"))

InFreeTurns(s) ==
  /\ hands_dealt <= 1
  /\ \/ s.game_phase = "PLAYER_DISCARD" /\ discards_made(s) < FreeTurns
     \/ s.game_phase = "WAITING_FOR_RESPONSE" /\ discards_made(s) <= FreeTurns

\* The entries of current_candidates of one type the step chooses from: all
\* of them in the free turns, the default one afterwards.
Choices(s, ty) ==
  IF InFreeTurns(s) THEN Offered(ty)
  ELSE IF ty \in {"TSUMO", "DISCARD", "RON", "PASS"}
  THEN SelectSeq(DefaultCandidates(candidates_state), LAMBDA a : a.type = ty)
  ELSE <<>>

\* The state after MahjongEnv.step, with what the step computed.
Step(r) ==
  /\ SetGS(r.gs)
  /\ hand_outcome_info' = r.outcome
  /\ game_is_over' = r.over
  /\ candidates_state' = IF r.refreshed THEN r.info ELSE candidates_state
  /\ UNCHANGED hands_dealt

\* MahjongEnv.step with a DISCARD entry of current_candidates.
Discard ==
  /\ LET c == Choices(GS, "DISCARD")
     IN  \E i \in DOMAIN c :
           Step(step(GS, c[i]))
  /\ twin' = NoTwin
  /\ UNCHANGED << resolve_input, resolve_output, game_length,
                  query_input, query_output >>

\* MahjongEnv.step with a TSUMO, RIICHI or SPECIAL_DRAW entry.
Declare ==
  /\ \E ty \in {"TSUMO", "RIICHI", "SPECIAL_DRAW"} :
       LET c == Choices(GS, ty)
       IN  \E i \in DOMAIN c :
             Step(step(GS, c[i]))
  /\ twin' = NoTwin
  /\ UNCHANGED << resolve_input, resolve_output, game_length,
                  query_input, query_output >>

\* MahjongEnv.step with a RON, PON, KAN, CHI or PASS entry.
Respond ==
  /\ \E ty \in {"RON", "PON", "KAN", "CHI", "PASS"} :
       LET c == Choices(GS, ty)
       IN  \E i \in DOMAIN c :
             Step(step(GS, c[i]))
  /\ twin' = NoTwin
  /\ UNCHANGED << resolve_input, resolve_output, game_length,
                  query_input, query_output >>

\* GameState.apply_action called with an action outside the candidates of
\* the seat, by a seat whose turn it is not, or after the hand has ended.
Probes(s, p) ==
  LET hand == s.players[p].hand
      own == IF hand # <<>> THEN {ActDiscard(hand[1])} ELSE {}
  IN  IF p = s.current_player_index
      THEN { ActPass, ActRon(s.last_discarded_tile), ActTsumo(NoTile),
             ActKan(T(27), "CLOSED"), ActDiscard(T(0)) } \cup own
      ELSE { ActPass } \cup own

Misuse ==
  /\ game_phase \in {"PLAYER_DISCARD", "WAITING_FOR_RESPONSE",
                     "HAND_OVER_SCORES"}
  /\ hands_dealt <= 1
  /\ discards_made(GS) <= MisuseTurns
  /\ \E p \in Seats \cap {current_player_index,
                          (current_player_index + 1) % num_players} :
       \E a \in Probes(GS, p) :
         /\ ~IsCandidate(GS, p, a)
         /\ SetGS(apply_action(GS, a, p))
  /\ twin' = NoTwin
  /\ UNCHANGED << resolve_input, resolve_output, game_length,
                  hand_outcome_info, game_is_over,
                  query_input, query_output, candidates_state, hands_dealt >>

Next == Reset \/ ResetGame \/ Discard \/ Declare \/ Respond \/ Misuse

Spec == Init /\ [][Next]_vars

\* ------------------------------------------------------------------------
\* resolve_response_priorities as a function of its arguments.  The calls:
\* any discarder; declarations by distinct seats other than the discarder, in
\* any recording order, each seat declaring RON, PON, open KAN or PASS, so
\* that RON meets RON and PON meets PON or open KAN at two or three seats;
\* CHI from the seat after the discarder only, the one seat whose candidates
\* hold a CHI; and the call on the state after construction, before any
\* discard.
\* ------------------------------------------------------------------------
DeclaredTile == T(11)

DeclarableActions(seat, discarder) ==
  { ActRon(DeclaredTile), ActPon(DeclaredTile), ActKan(DeclaredTile, "OPEN"),
    ActPass }
    \cup (IF seat = (discarder + 1) % num_players
          THEN { ActChi(DeclaredTile, << T(9), T(10) >>),
                 ActChi(DeclaredTile, << T(12), T(13) >>) }
          ELSE {})

DeclarationChoices(S, discarder) ==
  { f \in [S -> UNION { DeclarableActions(p, discarder) : p \in S }] :
      \A p \in S : f[p] \in DeclarableActions(p, discarder) }

RecordingOrders(S) ==
  { o \in [1 .. Cardinality(S) -> S] :
      \A i, j \in 1 .. Cardinality(S) : o[i] = o[j] => i = j }

CallAfterInit ==
  Call(GameState__init__.response_declarations,
       GameState__init__.last_discard_player_index)

Calls ==
  { CallAfterInit } \cup
  UNION { UNION {
    { Call([k \in 1 .. Cardinality(S) |-> Declaration(o[k], f[o[k]])], d) :
        o \in RecordingOrders(S), f \in DeclarationChoices(S, d) } :
      S \in SUBSET (Seats \ {d}) } : d \in Seats }

InitResolve ==
  /\ players = GameState__init__.players
  /\ live_tiles = <<>>
  /\ dead_wall_tiles = <<>>
  /\ replacement_tiles_drawn = 0
  /\ dora_indicators = <<>>
  /\ ura_dora_indicators = <<>>
  /\ round_wind = 0
  /\ round_number = 1
  /\ honba = 0
  /\ riichi_sticks = 0
  /\ dealer_index = 0
  /\ current_player_index = 0
  /\ game_phase = "GAME_START"
  /\ last_discarded_tile = NoTile
  /\ last_discard_player_index = 0 - 1
  /\ last_action_info = NoLastAction
  /\ response_declarations = UnsetDeclarations
  /\ responders_to_prompt = UnsetQueue
  /\ responded_to_current_discard = UnsetSeats
  /\ turn_number = 0
  /\ raised = FALSE
  /\ twin = NoTwin
  /\ resolve_input \in Calls
  /\ resolve_output = NotCalled
  /\ game_length = "hanchan"
  /\ hand_outcome_info = NoOutcome
  /\ game_is_over = FALSE
  /\ query_input = NoQuery
  /\ query_output = NotQueried
  /\ candidates_state = NoCandidates
  /\ hands_dealt = 0

Resolve ==
  /\ ~resolve_output.called
  /\ resolve_output' =
       [called |-> TRUE,
        winner |-> _resolve_response_priorities(resolve_input.declarations,
                                                resolve_input.discarder_index)]
  /\ UNCHANGED << players, live_tiles, dead_wall_tiles,
                  replacement_tiles_drawn, dora_indicators,
                  ura_dora_indicators, round_wind, round_number, honba,
                  riichi_sticks, dealer_index, current_player_index,
                  game_phase, last_discarded_tile, last_discard_player_index,
                  last_action_info, response_declarations,
                  responders_to_prompt, responded_to_current_discard,
                  turn_number, raised, twin, resolve_input, game_length,
                  hand_outcome_info, game_is_over,
                  query_input, query_output, candidates_state,
                  hands_dealt >>

NextResolve == Resolve

SpecResolve == InitResolve /\ [][NextResolve]_vars

\* ------------------------------------------------------------------------
\* Properties of resolve_response_priorities (SpecResolve)
\* ------------------------------------------------------------------------
DeclaredTypes(decls) == { decls[k].action.type : k \in DOMAIN decls }

\* The highest class among the declared types: RON, then PON / open KAN,
\* then CHI.
HighestClass(decls) ==
  IF "RON" \in DeclaredTypes(decls) THEN {"RON"}
  ELSE IF DeclaredTypes(decls) \cap {"PON", "KAN"} # {} THEN {"PON", "KAN"}
  ELSE IF "CHI" \in DeclaredTypes(decls) THEN {"CHI"}
  ELSE {}

Reordered(decls, o) == [k \in DOMAIN decls |-> decls[o[k]]]

\* C2: the winner of a resolution is a RON if any seat declared RON,
\* otherwise a PON or open KAN if any seat declared one, otherwise the CHI
\* if one was declared; and every recording order of the same declarations
\* gives the same winner.
C2_PriorityByClass ==
  resolve_output.called =>
    LET decls == resolve_input.declarations
        discarder == resolve_input.discarder_index
        winner == resolve_output.winner
    IN  /\ HighestClass(decls) # {} =>
              /\ winner.action.type \in HighestClass(decls)
              /\ \E k \in DOMAIN decls :
                    decls[k] = Declaration(winner.player, winner.action)
        /\ \A o \in RecordingOrders(DOMAIN decls) :
              _resolve_response_priorities(Reordered(decls, o), discarder)
                = winner

\* A PON was recorded first, a RON after it, and the RON won.
C2_Witness ==
  /\ resolve_output.called
  /\ Len(resolve_input.declarations) >= 2
  /\ resolve_input.declarations[1].action.type = "PON"
  /\ resolve_input.declarations[2].action.type = "RON"
  /\ resolve_output.winner.action.type = "RON"

\* The distance of a seat from the discarder against turn order: 1 for
\* (discarder - 1), 2 for (discarder - 2), 3 for (discarder - 3).
ReverseDistance(discarder, seat) == (discarder - seat) % num_players

TopDeclarers(decls) ==
  { decls[k].seat : k \in { j \in DOMAIN decls :
                              decls[j].action.type \in HighestClass(decls) } }

\* C3: when two or more seats declared the highest class present, the
\* winner is the one declaration of the first of them met scanning
\* (discarder - 1), (discarder - 2), (discarder - 3) mod 4.
C3_TieBreakReverseTurn ==
  (resolve_output.called
     /\ Cardinality(TopDeclarers(resolve_input.declarations)) >= 2) =>
    LET decls == resolve_input.declarations
        discarder == resolve_input.discarder_index
        winner == resolve_output.winner
    IN  /\ winner.player \in TopDeclarers(decls)
        /\ winner.action = DeclarationOf(decls, winner.player)
        /\ \A p \in TopDeclarers(decls) :
              ReverseDistance(discarder, winner.player)
                <= ReverseDistance(discarder, p)

\* A tie in the PON / open KAN class with no RON above it: seat
\* (discarder + 1) declared PON and was recorded first, seat (discarder - 2)
\* declared an open KAN and seat (discarder - 1) passed; the open KAN of
\* (discarder - 2), met first by the scan, won.
C3_Witness ==
  /\ resolve_output.called
  /\ LET decls == resolve_input.declarations
         discarder == resolve_input.discarder_index
     IN  /\ Len(decls) = 3
         /\ decls[1] = Declaration((discarder + 1) % num_players,
                                   ActPon(DeclaredTile))
         /\ decls[2] = Declaration((discarder - 2) % num_players,
                                   ActKan(DeclaredTile, "OPEN"))
         /\ decls[3] = Declaration((discarder - 1) % num_players, ActPass)
         /\ Cardinality(TopDeclarers(decls)) = 2
  /\ resolve_output.winner
       = Resolution(ActKan(DeclaredTile, "OPEN"),
                    (resolve_input.discarder_index - 2) % num_players)

\* ------------------------------------------------------------------------
\* Properties of a hand (Spec)
\* ------------------------------------------------------------------------
DrawnSlot(p) ==
  IF players[p].drawn_tile = NoTile THEN <<>> ELSE << players[p].drawn_tile >>

TilesOfSeat(p) ==
  players[p].hand \o DrawnSlot(p) \o MeldTiles(players[p].melds)
    \o players[p].discards

\* Every tile of the table, each place it lies in counted.
TilesOnTable ==
  live_tiles \o dead_wall_tiles \o TilesOfSeat(0) \o TilesOfSeat(1)
    \o TilesOfSeat(2) \o TilesOfSeat(3)

\* C1: within a hand the live wall, the dead wall, the hands, the drawn
\* tiles, the melds and the discard piles together hold the 136 tiles of
\* the set, each once: none is counted twice and none is lost.
C1_TileConservation ==
  game_phase # "GAME_START" =>
    /\ Len(TilesOnTable) = NUM_TILES_TOTAL
    /\ \A i \in DOMAIN _generate_tiles :
          SeqCount(TilesOnTable, _generate_tiles[i])
            = SeqCount(_generate_tiles, _generate_tiles[i])

\* The step is an apply_action call, made by MahjongEnv.step or directly:
\* it deals no hand (reset) and does not restart the game (reset_game).
\* Each call records its caller and action in last_action_info.
Applied ==
  /\ hands_dealt' = hands_dealt
  /\ game_phase' # "GAME_START"

\* The step is an apply_action call with an action that is not among the
\* caller's candidates: a call by a seat whose turn it is not, an action
\* outside the list, or any call once the hand is over.
IllegalCall ==
  /\ Applied
  /\ game_phase # "GAME_START"
  /\ ~IsCandidate(GS, last_action_info'.player, last_action_info'.action_obj)

\* C4: an apply_action call with an action that is not legal for the caller
\* leaves the hands, drawn tiles, melds, discards, scores, riichi flags,
\* riichi sticks, wall, phase, current actor, last-discard record and
\* last-action record as they were.
C4_IllegalCallChangesNothing ==
  [][IllegalCall =>
       UNCHANGED << players, live_tiles, dead_wall_tiles,
                    replacement_tiles_drawn, dora_indicators,
                    ura_dora_indicators, riichi_sticks, game_phase,
                    current_player_index, last_discarded_tile,
                    last_discard_player_index, last_action_info >>]_vars

\* The state right after a reset: `twin` is set by Reset and cleared by
\* the first call that follows.
AfterReset == twin # NoTwin

\* The step is an apply_action(DISCARD) call by seat d, whose turn it is,
\* and the tile went to d's discard pile.
DiscardApplied(d) ==
  /\ Applied
  /\ game_phase = "PLAYER_DISCARD"
  /\ d = current_player_index
  /\ last_action_info'.player = d
  /\ last_action_info'.type = "DISCARD"
  /\ players'[d].discards
       = Append(players[d].discards, last_action_info'.action_obj.tile)

\* The state the other seats answer to: the discard of d recorded, nothing
\* else moved yet.
ResponseState(d) ==
  [GS EXCEPT !.players[d] = players'[d],
             !.last_discarded_tile = last_action_info'.action_obj.tile,
             !.last_discard_player_index = d,
             !.game_phase = "WAITING_FOR_RESPONSE"]

\* The seats other than d with a candidate besides PASS, in turn order
\* after d.
CanCall(d, p) ==
  p # d /\ HasCall(generate_candidate_actions(ResponseState(d), p).list)

DiscardLeftHand(d) ==
  LET tile == last_action_info'.action_obj.tile
  IN  /\ Len(players'[d].discards) = Len(players[d].discards) + 1
      /\ players'[d].discards[Len(players'[d].discards)] = tile
      /\ SeqCount(full_hand_tiles(players'[d]), tile)
           = SeqCount(full_hand_tiles(players[d]), tile) - 1
      /\ Len(full_hand_tiles(players'[d])) = HAND_SIZE

\* The dealer, in the state right after a reset, applies a DISCARD of its
\* candidate list.
FirstDiscard ==
  /\ AfterReset
  /\ DiscardApplied(dealer_index)
  /\ IsCandidate(GS, dealer_index, last_action_info'.action_obj)

\* C5: after the dealer's first DISCARD the call has returned, the hand is
\* not over, the phase is WAITING_FOR_RESPONSE, and the tile has left the
\* hand or drawn slot and is the last entry of the dealer's discard pile.
C5_FirstDiscardWaits ==
  [][FirstDiscard =>
       /\ ~raised'
       /\ game_phase' # "HAND_OVER_SCORES"
       /\ game_phase' = "WAITING_FOR_RESPONSE"
       /\ DiscardLeftHand(dealer_index)]_vars

\* Seat n drew the head of the live wall and is to discard; no other seat
\* but the discarder d changed.
DrewFromWall(d, n) ==
  /\ game_phase' = "PLAYER_DISCARD"
  /\ current_player_index' = n
  /\ live_tiles' = Tail(live_tiles)
  /\ players'[n] = [players[n] EXCEPT !.drawn_tile = Head(live_tiles)]
  /\ players[n].drawn_tile = NoTile
  /\ \A p \in Seats \ {d, n} : players'[p] = players[p]

\* The hand ended in an exhaustive draw: nobody drew, and only the scores
\* of the other seats may have changed.
EndedInDraw(d) ==
  /\ game_phase' = "HAND_OVER_SCORES"
  /\ live_tiles' = <<>>
  /\ \A p \in Seats \ {d} :
        [players'[p] EXCEPT !.score = players[p].score] = players[p]

\* C6: when no other seat has a candidate besides PASS for a discard by
\* seat d, the same apply_action call gives seat (d + 1) mod 4 one tile
\* from the head of the live wall into its drawn slot and makes it the
\* actor in PLAYER_DISCARD, or ends the hand in HAND_OVER_SCORES when the
\* live wall is empty.
C6_EmptyQueueDraws ==
  [][\A d \in Seats :
       (DiscardApplied(d) /\ \A p \in Seats : ~CanCall(d, p)) =>
         IF live_tiles = <<>>
         THEN EndedInDraw(d)
         ELSE DrewFromWall(d, (d + 1) % num_players)]_vars

\* A discard nobody could call emptied the hand's last turn: the live wall
\* is used up and the hand is over.
C6_Witness ==
  /\ game_phase = "HAND_OVER_SCORES"
  /\ live_tiles = <<>>
  /\ last_action_info.type = "DISCARD"
  /\ last_discard_player_index = last_action_info.player
  /\ Len(players[last_action_info.player].discards) > 1
  /\ \A p \in Seats : players[p].drawn_tile = NoTile

\* The step is the PASS of the last queued responder to the discard of
\* seat d, every responder before it having passed too.
AllPassed(d) ==
  /\ Applied
  /\ game_phase = "WAITING_FOR_RESPONSE"
  /\ d = last_discard_player_index
  /\ responders_to_prompt = << current_player_index >>
  /\ last_action_info'.player = current_player_index
  /\ last_action_info'.type = "PASS"
  /\ IsCandidate(GS, current_player_index, last_action_info'.action_obj)
  /\ \A k \in DOMAIN response_declarations :
        response_declarations[k].action.type = "PASS"

\* C7: when every queued responder to a discard by seat d has passed, the
\* seat that draws next and becomes the actor in PLAYER_DISCARD is
\* (d + 1) mod 4, whichever seats were queued and whichever passed last;
\* with the live wall empty the hand ends in HAND_OVER_SCORES.
C7_AllPassNextDrawer ==
  [][\A d \in Seats :
       AllPassed(d) =>
         IF live_tiles = <<>>
         THEN game_phase' = "HAND_OVER_SCORES"
         ELSE /\ game_phase' = "PLAYER_DISCARD"
              /\ current_player_index' = (d + 1) % num_players
              /\ players'[(d + 1) % num_players].drawn_tile
                   = Head(live_tiles)]_vars

\* C8: right after a reset the phase is PLAYER_DISCARD, the dealer is the
\* actor, every seat holds 13 concealed tiles and the dealer one extra
\* drawn tile, all melds and discard piles are empty, and the dealer's
\* list of legal actions is not empty.
C8_AfterReset ==
  AfterReset =>
    /\ game_phase = "PLAYER_DISCARD"
    /\ current_player_index = dealer_index
    /\ \A p \in Seats :
          /\ Len(players[p].hand) = HAND_SIZE
          /\ (players[p].drawn_tile # NoTile) <=> (p = dealer_index)
          /\ players[p].melds = <<>>
          /\ players[p].discards = <<>>
    /\ ~generate_candidate_actions(GS, dealer_index).raised
    /\ generate_candidate_actions(GS, dealer_index).list # <<>>

\* C9: a second instance reset with the same seed starts in the same
\* state: wall order, hands, dora indicator, phase and list of legal
\* actions.
C9_SameSeedSameStart ==
  AfterReset =>
    /\ twin.live_tiles = live_tiles
    /\ twin.dead_wall_tiles = dead_wall_tiles
    /\ \A p \in Seats :
          /\ twin.players[p].hand = players[p].hand
          /\ twin.players[p].drawn_tile = players[p].drawn_tile
    /\ twin.dora_indicators = dora_indicators
    /\ twin.game_phase = game_phase
    /\ generate_candidate_actions(twin, twin.current_player_index)
         = generate_candidate_actions(GS, current_player_index)

\* The step is the response that completes the queue for the discard of
\* seat d, and the resolution of the recorded declarations is the RON of
\* seat w.
RonWins(d, w) ==
  /\ Applied
  /\ game_phase = "WAITING_FOR_RESPONSE"
  /\ d = last_discard_player_index
  /\ responders_to_prompt = << current_player_index >>
  /\ last_action_info'.player = current_player_index
  /\ IsCandidate(GS, current_player_index, last_action_info'.action_obj)
  /\ LET won == _resolve_response_priorities(
                  SetDeclaration(response_declarations, current_player_index,
                                 last_action_info'.action_obj), d)
     IN  won.action.type = "RON" /\ won.player = w

\* C10: when a RON wins the resolution, whether or not its declarer was
\* the last queued seat to declare, the phase becomes HAND_OVER_SCORES and
\* the hand outcome has end type RON, the declarer as winner and the
\* discarder as loser.
C10_RonOutcome ==
  [][\A d, w \in Seats :
       RonWins(d, w) =>
         /\ game_phase' = "HAND_OVER_SCORES"
         /\ hand_outcome_info'.end_type = "RON"
         /\ hand_outcome_info'.winner_index = w
         /\ hand_outcome_info'.loser_index = d]_vars

\* ------------------------------------------------------------------------
\* Properties of the settlement (Spec)
\* ------------------------------------------------------------------------

\* The step is a TSUMO taken by the dealer from its candidates.
DealerTsumo ==
  /\ Applied
  /\ game_phase = "PLAYER_DISCARD"
  /\ current_player_index = dealer_index
  /\ last_action_info'.type = "TSUMO"
  /\ last_action_info'.player = dealer_index
  /\ IsCandidate(GS, dealer_index, last_action_info'.action_obj)

\* C11: when the dealer applies a TSUMO from its candidates, the hand ends
\* with end type TSUMO and the dealer as winner, no other seat gains points,
\* and the next hand keeps the dealer, the round wind and the round number
\* with honba one higher.
C11_DealerTsumoRepeats ==
  [][DealerTsumo =>
       /\ ~raised'
       /\ game_phase' = "HAND_OVER_SCORES"
       /\ hand_outcome_info'.end_type = "TSUMO"
       /\ hand_outcome_info'.winner_index = dealer_index
       /\ \A p \in Seats \ {dealer_index} :
             hand_outcome_info'.score_changes[p] <= 0
       /\ dealer_index' = dealer_index
       /\ round_wind' = round_wind
       /\ round_number' = round_number
       /\ honba' = honba + 1]_vars

\* The step ends the hand in an exhaustive draw and settles it.
SettlesExhaustiveDraw ==
  /\ game_phase # "HAND_OVER_SCORES"
  /\ game_phase' = "HAND_OVER_SCORES"
  /\ hand_outcome_info'.end_type = "EXHAUSTIVE_DRAW"

DealerTenpai == InSeq(hand_outcome_info'.tenpai_players, dealer_index)

\* C12: after an exhaustive draw the next hand keeps the dealer when the
\* dealer was tenpai, and otherwise gives the deal to seat (dealer + 1) mod 4.
C12_DealerRetentionOnDraw ==
  [][SettlesExhaustiveDraw =>
       /\ ~raised'
       /\ dealer_index' = IF DealerTenpai THEN dealer_index
                          ELSE (dealer_index + 1) % num_players]_vars

\* ------------------------------------------------------------------------
\* The settlement of MahjongEnv.step as a function of the state the last
\* discard of a hand leaves (live wall empty, HAND_OVER_SCORES) and of the
\* configured game length.  The states: each seat holds one of two hands,
\* one tenpai and one not; any hand of a wind within the configured length,
\* with the dealer of that hand (the first dealer is seat 0), no honba and
\* no riichi stick; all scores at their initial value or seat LowSeat near
\* zero.
\* ------------------------------------------------------------------------
LowScore == 500
LowSeat == 2
HandsPerWind == 4

\* The keys of GAME_LENGTH_MAX_WIND and the last round wind of each: East,
\* South, North.
GameLengths == {"tonpuusen", "hanchan", "issousen"}
GAME_LENGTH_MAX_WIND(length) ==
  CASE length = "tonpuusen" -> 0
    [] length = "hanchan" -> 1
    [] length = "issousen" -> 3

\* Seat 0 holds honours, seat p > 0 the number tiles of suit p - 1.
TenpaiHand(p) ==
  IF p = 0
  THEN Tiles(<<27, 27, 27, 28, 28, 28, 29, 29, 29, 30, 30, 30, 31>>)
  ELSE LET b == 9 * (p - 1)
       IN  Tiles(<<b, b, b, b + 1, b + 1, b + 1, b + 2, b + 2, b + 2,
                   b + 3, b + 3, b + 3, b + 4>>)
NotenHand(p) ==
  IF p = 0
  THEN Tiles(<<27, 27, 27, 28, 28, 28, 29, 29, 29, 30, 31, 32, 33>>)
  ELSE LET b == 9 * (p - 1)
       IN  Tiles(<<b, b, b, b + 1, b + 1, b + 1, b + 2, b + 2, b + 2,
                   b + 4, b + 7, b + 8, b + 8>>)

ScoreProfiles ==
  { [p \in Seats |-> initial_score],
    [p \in Seats |-> IF p = LowSeat THEN LowScore ELSE initial_score] }

HandOverState(tenpai, wind, number, scores) ==
  LET d == (number - 1) % num_players
  IN  [GameState__init__ EXCEPT
         !.players =
            [p \in Seats |->
               [PlayerState(p, scores[p]) EXCEPT
                  !.seat_wind = (p - d + num_players) % num_players,
                  !.hand = IF p \in tenpai THEN TenpaiHand(p)
                           ELSE NotenHand(p)]],
         !.round_wind = wind, !.round_number = number,
         !.dealer_index = d,
         !.current_player_index = 0 - 1,
         !.game_phase = "HAND_OVER_SCORES",
         !.last_discarded_tile = T(33),
         !.last_discard_player_index = (d + 1) % num_players,
         !.last_action_info =
            LastAction("DISCARD", (d + 1) % num_players, ActDiscard(T(33))),
         !.turn_number = 1]

IsGS(n) ==
  /\ players = n.players
  /\ live_tiles = n.live_tiles
  /\ dead_wall_tiles = n.dead_wall_tiles
  /\ replacement_tiles_drawn = n.replacement_tiles_drawn
  /\ dora_indicators = n.dora_indicators
  /\ ura_dora_indicators = n.ura_dora_indicators
  /\ round_wind = n.round_wind
  /\ round_number = n.round_number
  /\ honba = n.honba
  /\ riichi_sticks = n.riichi_sticks
  /\ dealer_index = n.dealer_index
  /\ current_player_index = n.current_player_index
  /\ game_phase = n.game_phase
  /\ last_discarded_tile = n.last_discarded_tile
  /\ last_discard_player_index = n.last_discard_player_index
  /\ last_action_info = n.last_action_info
  /\ response_declarations = n.response_declarations
  /\ responders_to_prompt = n.responders_to_prompt
  /\ responded_to_current_discard = n.responded_to_current_discard
  /\ turn_number = n.turn_number
  /\ raised = n.raised

InitSettle ==
  /\ game_length \in GameLengths
  /\ \E tenpai \in SUBSET Seats, number \in 1 .. HandsPerWind,
        wind \in 0 .. GAME_LENGTH_MAX_WIND(game_length),
        scores \in ScoreProfiles :
       IsGS(HandOverState(tenpai, wind, number, scores))
  /\ twin = NoTwin
  /\ resolve_input = NoCall
  /\ resolve_output = NotCalled
  /\ hand_outcome_info = NoOutcome
  /\ game_is_over = FALSE
  /\ query_input = NoQuery
  /\ query_output = NotQueried
  /\ candidates_state = NoCandidates
  /\ hands_dealt = 0

\* MahjongEnv.step from the return of apply_action on.
Settle ==
  /\ hand_outcome_info = NoOutcome
  /\ ~raised
  /\ Step(step_after_action(GS))
  /\ UNCHANGED << twin, resolve_input, resolve_output, game_length,
                  query_input, query_output >>

NextSettle == Settle

SpecSettle == InitSettle /\ [][NextSettle]_vars

\* ------------------------------------------------------------------------
\* Properties of the settlement (SpecSettle)
\* ------------------------------------------------------------------------

\* The step settles a hand that ended in an exhaustive draw.
SettledDraw ==
  /\ hand_outcome_info = NoOutcome
  /\ hand_outcome_info'.end_type = "EXHAUSTIVE_DRAW"

\* The deal is due to pass on: the dealer is not among the tenpai seats.
RotationDue == ~InSeq(hand_outcome_info'.tenpai_players, dealer_index)

\* C13: when the dealer rotates the round number goes up by one, except
\* that after the fourth hand of a wind the round wind goes up by one and
\* the round number restarts at 1; when the dealer is kept, round wind and
\* number are unchanged; the dealer is always seat
\* (initial dealer + round number - 1) mod 4.
C13_RoundProgression ==
  [][SettledDraw =>
       /\ ~raised'
       /\ dealer_index' =
            (GameState__init__.dealer_index + round_number' - 1) % num_players
       /\ IF ~RotationDue
          THEN round_wind' = round_wind /\ round_number' = round_number
          ELSE IF round_number = HandsPerWind
          THEN round_wind' = round_wind + 1 /\ round_number' = 1
          ELSE round_wind' = round_wind /\ round_number' = round_number + 1
    ]_vars

\* The hand settled was the last one of the configured game length and the
\* deal is due to pass on.
LastHandCompleted ==
  /\ RotationDue
  /\ round_number = HandsPerWind
  /\ round_wind = GAME_LENGTH_MAX_WIND(game_length)

TenpaiSeats == { p \in Seats : players[p].hand = TenpaiHand(p) }

\* C15: an exhaustive draw with T seats tenpai and 4 - T noten takes
\* 3000 / (4 - T) from every noten seat and gives 3000 / T to every tenpai
\* seat when 0 < T < 4, the changes summing to zero; with T = 0 or T = 4
\* every change is zero.
C15_NotenPenalty ==
  hand_outcome_info.end_type = "EXHAUSTIVE_DRAW" =>
    LET NumTenpai == Cardinality(TenpaiSeats)
        change == hand_outcome_info.score_changes
    IN  /\ \A p \in Seats :
              InSeq(hand_outcome_info.tenpai_players, p) <=> p \in TenpaiSeats
        /\ \A p \in Seats :
              InSeq(hand_outcome_info.noten_players, p) <=> p \notin TenpaiSeats
        /\ IF 0 < NumTenpai /\ NumTenpai < num_players
           THEN /\ \A p \in TenpaiSeats : change[p] * NumTenpai = 3000
                /\ \A p \in Seats \ TenpaiSeats :
                      change[p] * (num_players - NumTenpai) = 0 - 3000
                /\ change[0] + change[1] + change[2] + change[3] = 0
           ELSE \A p \in Seats : change[p] = 0

\* An exhaustive draw with three seats tenpai has been settled: the noten
\* seat paid 3000.
C15_Witness ==
  /\ hand_outcome_info.end_type = "EXHAUSTIVE_DRAW"
  /\ Cardinality(TenpaiSeats) = 3
  /\ \E p \in Seats \ TenpaiSeats :
        hand_outcome_info.score_changes[p] = 0 - 3000

\* ------------------------------------------------------------------------
\* HandAnalyzer (rules/hand_analyzer.py): the forms are modelled by whether
\* the list returned is non-empty.
\* ------------------------------------------------------------------------
\* The Meld dataclass of a declared meld that GameState stores as a dict.
AsMeld(m) ==
  [type |-> IF m.type = "chi" THEN "CHI"
            ELSE IF m.type = "pon" THEN "PON" ELSE "KAN",
   tiles |-> m.tiles]

AsMelds(melds) == [i \in DOMAIN melds |-> AsMeld(melds[i])]

\* A search that knows runs only.
RECURSIVE _find_runs_only(_, _)
_find_runs_only(tile_counts, melds_to_find) ==
  IF melds_to_find = 0 THEN CountSum(tile_counts) = 0
  ELSE IF CountSum(tile_counts) < melds_to_find * 3 THEN FALSE
  ELSE
    LET RECURSIVE FirstPresent(_)
        FirstPresent(v) ==
          IF tile_counts[v] > 0 THEN v ELSE FirstPresent(v + 1)
        min_val == FirstPresent(0)
    IN  /\ min_val < 27
        /\ min_val % 9 <= 6
        /\ tile_counts[min_val + 1] > 0
        /\ tile_counts[min_val + 2] > 0
        /\ _find_runs_only([tile_counts EXCEPT ![min_val] = @ - 1,
                                               ![min_val + 1] = @ - 1,
                                               ![min_val + 2] = @ - 1],
                           melds_to_find - 1)

\* The code of RulesEngine._find_standard_melds, kept "as in the previous
\* version".
_find_melds_recursive_by_value(tile_counts, melds_to_find) ==
  _find_standard_melds(tile_counts, melds_to_find)

_find_melds_recursive_by_tile(hand_tiles, pair_value_to_exclude, melds_to_find) ==
  _find_melds_recursive_by_value(
    [ValueCounts(hand_tiles) EXCEPT ![pair_value_to_exclude] = @ - 2],
    melds_to_find)

_find_standard_forms(hand_tiles, open_components) ==
  LET value_counts == ValueCounts(hand_tiles)
      melds_needed == 4 - Len(open_components)
  IN  \E pair_value \in TileValues :
        /\ value_counts[pair_value] >= 2
        /\ _find_melds_recursive_by_tile(hand_tiles, pair_value, melds_needed)

\* _find_kokushi_forms and _find_chiitoitsu_forms apply the tests of
\* RulesEngine._is_kokushi_raw and _is_seven_pairs_raw to the concealed tiles.
find_all_winning_forms(hand_tiles, melds) ==
  LET open_components ==
        SelectSeq(melds, LAMBDA m : m.type \in {"CHI", "PON", "KAN"})
  IN  \/ melds = <<>> /\ _is_kokushi_raw(hand_tiles, <<>>)
      \/ melds = <<>> /\ _is_seven_pairs_raw(hand_tiles, <<>>)
      \/ _find_standard_forms(hand_tiles, open_components)

check_win_shape(hand_tiles, melds) ==
  /\ Len(hand_tiles \o MeldTiles(melds)) = 14
  /\ find_all_winning_forms(hand_tiles, melds)

find_wait_tiles(hand_tiles, melds) ==
  LET all_current_tiles == hand_tiles \o MeldTiles(melds)
      current_value_counts == ValueCounts(all_current_tiles)
  IN  IF Len(all_current_tiles) # 13 THEN {}
      ELSE {v \in TileValues :
              /\ current_value_counts[v] < 4
              /\ check_win_shape(hand_tiles \o <<T(v)>>, melds)}

\* ------------------------------------------------------------------------
\* Hand analysis on sample holdings: each behaviour asks one question about
\* one holding and one tile.
\* ------------------------------------------------------------------------
\* A seat with its concealed tiles, declared melds and discards.  is_menzen
\* is as PlayerState.__init__ leaves it: no call of a meld clears it.
Holding(hand, melds, discards) ==
  [PlayerState(0, initial_score) EXCEPT
     !.seat_wind = 0, !.hand = Tiles(hand), !.melds = melds,
     !.discards = Tiles(discards)]

Chi123m == Meld("chi", Tiles(<<0, 1, 2>>))
KanEast == Meld("kan_open", Tiles(<<27, 27, 27, 27>>))

\* 123m 456m 999m 4p5p and a pair of green dragons: waits on 3p and 6p.
ClosedNoYaku == <<0, 1, 2, 3, 4, 5, 8, 8, 8, 12, 13, 32, 32>>
\* 234m 567m 234p 6p7p and a pair of 5s: all simples.
ClosedSimples == <<1, 2, 3, 4, 5, 6, 10, 11, 12, 14, 15, 22, 22>>
SixPairs == <<0, 0, 3, 3, 9, 9, 12, 12, 20, 20, 27, 27, 31>>
Scattered == <<0, 3, 6, 9, 12, 15, 18, 21, 24, 27, 28, 29, 30>>
\* 23455m 456p 789s and a pair of East.
WorkedExample == <<1, 2, 3, 4, 4, 12, 13, 14, 24, 25, 26, 27, 27>>

Holdings ==
  { Holding(ClosedNoYaku, <<>>, <<30>>),
    Holding(ClosedNoYaku, <<>>, <<11, 30>>),
    Holding(ClosedSimples, <<>>, <<30>>),
    Holding(SixPairs, <<>>, <<30>>),
    Holding(Scattered, <<>>, <<31>>),
    Holding(WorkedExample, <<>>, <<30>>),
    Holding(<<0, 10, 11, 12, 18, 19, 20, 22, 23, 24>>, <<Chi123m>>, <<30>>),
    Holding(<<0, 3, 10, 11, 12, 18, 19, 20, 22, 23>>, <<Chi123m>>, <<30>>),
    Holding(<<1, 2, 3, 4, 5, 6, 10, 11, 12, 22>>, <<KanEast>>, <<30>>) }

TileSample == {0, 3, 11, 14, 16, 21, 22, 31}

InitHand ==
  /\ IsGS(GameState__init__)
  /\ twin = NoTwin
  /\ resolve_input = NoCall
  /\ resolve_output = NotCalled
  /\ game_length = "hanchan"
  /\ hand_outcome_info = NoOutcome
  /\ game_is_over = FALSE
  /\ query_input \in {Query(h, T(v)) : h \in Holdings, v \in TileSample}
  /\ query_output = NotQueried
  /\ candidates_state = NoCandidates
  /\ hands_dealt = 0

AnswerWith(fn, result, waits, has_raised) ==
  /\ query_output.fn = "NONE"
  /\ query_output' = [fn |-> fn, result |-> result, waits |-> waits,
                      raised |-> has_raised]
  /\ UNCHANGED << players, live_tiles, dead_wall_tiles,
                  replacement_tiles_drawn, dora_indicators,
                  ura_dora_indicators, round_wind, round_number, honba,
                  riichi_sticks, dealer_index, current_player_index,
                  game_phase, last_discarded_tile, last_discard_player_index,
                  last_action_info, response_declarations,
                  responders_to_prompt, responded_to_current_discard,
                  turn_number, raised, twin, resolve_input, resolve_output,
                  game_length, hand_outcome_info, game_is_over, query_input,
                  candidates_state, hands_dealt >>

Answer(fn, result, waits) == AnswerWith(fn, result, waits, FALSE)

\* The seat is asked whether it may win on another seat's discard.
QueryRon ==
  Answer("_can_ron", _can_ron(query_input.player, query_input.tile), {})

\* The seat is asked whether it may win on the tile it has just drawn.
QueryTsumo ==
  Answer("_can_tsumo",
         _can_tsumo([query_input.player EXCEPT !.drawn_tile = query_input.tile]),
         {})

QueryWinShape ==
  Answer("_check_basic_win_shape",
         _check_basic_win_shape(
           SortedTiles(query_input.player.hand \o <<query_input.tile>>),
           query_input.player.melds),
         {})

QueryTenpai ==
  Answer("is_tenpai",
         is_tenpai(query_input.player.hand, query_input.player.melds), {})

QueryWaits ==
  LET waits == find_wait_tiles(query_input.player.hand,
                               AsMelds(query_input.player.melds))
  IN  Answer("find_wait_tiles", waits # {}, waits)

\* HandAnalyzer.is_tenpai: sum(len(m.tiles) for m in melds) reads an
\* attribute the melds that GameState stores as dicts do not have and
\* raises AttributeError at the first of them.
HandAnalyzer_is_tenpai_raises(hand_tiles, melds) == melds # <<>>

HandAnalyzer_is_tenpai(hand_tiles, melds) ==
  /\ Len(hand_tiles) + Len(MeldTiles(melds)) = 13
  /\ find_wait_tiles(hand_tiles, melds) # {}

\* ActionValidator._can_declare_riichi_basics
_can_declare_riichi_basics(player, s) ==
  /\ player.is_menzen
  /\ player.score >= 1000
  /\ Len(s.live_tiles) >= 4
  /\ ~player.riichi_declared

\* ActionValidator._find_riichi_discards: the hand after the discard is
\* [t for t in possible_discards if t != tile_to_discard], without any copy
\* of the tile.
ActionValidator_find_riichi_discards(player, s) ==
  IF ~_can_declare_riichi_basics(player, s) THEN Returned(<<>>)
  ELSE LET possible_discards == full_hand_tiles(player)
           Other(tile_to_discard) ==
             SelectSeq(possible_discards, LAMBDA t : t # tile_to_discard)
           Tenpai(t) == HandAnalyzer_is_tenpai(Other(t), player.melds)
       IN  IF \E i \in DOMAIN possible_discards :
                  HandAnalyzer_is_tenpai_raises(Other(possible_discards[i]),
                                                player.melds)
           THEN Raised
           ELSE Returned(SelectSeq(Dedup(possible_discards), Tenpai))

\* The seat asked, holding the queried tile as its drawn tile, in a hand
\* that has just been dealt.
QueriedSeat == [query_input.player EXCEPT !.drawn_tile = query_input.tile]
DealtState == reset_new_hand(GS, StackedWall(TopA, BottomB))

AnswerTiles(fn, tiles) ==
  Answer(fn, tiles # <<>>, {tiles[i] : i \in DOMAIN tiles})

\* The engine is asked for the riichi discards of the seat.
QueryRiichiDiscards ==
  AnswerTiles("RulesEngine._find_riichi_discards",
              _find_riichi_discards(QueriedSeat, DealtState))

\* The validator is asked for the riichi discards of the seat.
QueryValidatorRiichiDiscards ==
  LET found == ActionValidator_find_riichi_discards(QueriedSeat, DealtState)
  IN  AnswerWith("ActionValidator._find_riichi_discards",
                 found.list # <<>>,
                 {found.list[i] : i \in DOMAIN found.list}, found.raised)

NextHand ==
  \/ QueryRon \/ QueryTsumo \/ QueryWinShape \/ QueryTenpai \/ QueryWaits
  \/ QueryRiichiDiscards \/ QueryValidatorRiichiDiscards

SpecHand == InitHand /\ [][NextHand]_vars

\* ------------------------------------------------------------------------
\* Properties of hand analysis (SpecHand)
\* ------------------------------------------------------------------------
\* Whether the counted tiles split into n melds, taking the highest value
\* first.
RECURSIVE PartitionsIntoMelds(_, _)
PartitionsIntoMelds(counts, n) ==
  IF n = 0 THEN CountSum(counts) = 0
  ELSE IF CountSum(counts) # 3 * n THEN FALSE
  ELSE
    LET max_val == CHOOSE v \in TileValues :
                     counts[v] > 0 /\ \A w \in TileValues : counts[w] > 0 => w <= v
    IN  \/ /\ counts[max_val] >= 3
           /\ PartitionsIntoMelds([counts EXCEPT ![max_val] = @ - 3], n - 1)
        \/ /\ max_val < 27
           /\ max_val % 9 >= 2
           /\ counts[max_val - 1] > 0
           /\ counts[max_val - 2] > 0
           /\ PartitionsIntoMelds([counts EXCEPT ![max_val] = @ - 1,
                                                 ![max_val - 1] = @ - 1,
                                                 ![max_val - 2] = @ - 1],
                                  n - 1)

\* The concealed tiles split into 4-k melds and one pair beside k declared
\* melds.
StandardShape(concealed, melds) ==
  LET counts == ValueCounts(concealed)
  IN  \E pair_value \in TileValues :
        /\ counts[pair_value] >= 2
        /\ PartitionsIntoMelds([counts EXCEPT ![pair_value] = @ - 2],
                               4 - Len(melds))

SevenPairs(concealed) ==
  LET counts == ValueCounts(concealed)
  IN  /\ Len(concealed) = 14
      /\ \A v \in TileValues : counts[v] \in {0, 2}

ThirteenOrphans(concealed) ==
  LET counts == ValueCounts(concealed)
  IN  /\ Len(concealed) = 14
      /\ \A v \in TileValues :
           IF v \in terminal_honor_values THEN counts[v] >= 1
           ELSE counts[v] = 0

WinningShape(concealed, melds) ==
  \/ StandardShape(concealed, melds)
  \/ melds = <<>> /\ (SevenPairs(concealed) \/ ThirteenOrphans(concealed))

QueriedTiles == query_input.player.hand \o <<query_input.tile>>
QueriedMelds == query_input.player.melds

\* The yaku of the queried win: riichi, concealed self-draw, a triplet of
\* dragons or of the seat's or the round's wind, all simples in a concealed
\* hand.
QueriedYaku(is_tsumo) ==
  LET counts == ValueCounts(QueriedTiles \o MeldTiles(QueriedMelds))
      yakuhai == {31, 32, 33, 27 + query_input.player.seat_wind,
                  27 + round_wind}
  IN  (IF query_input.player.riichi_declared THEN {"Riichi"} ELSE {})
        \cup (IF is_tsumo /\ QueriedMelds = <<>> THEN {"Menzen Tsumo"} ELSE {})
        \cup (IF \E v \in yakuhai : counts[v] >= 3 THEN {"Yakuhai"} ELSE {})
        \cup (IF /\ QueriedMelds = <<>>
                 /\ \A v \in terminal_honor_values : counts[v] = 0
              THEN {"Tanyao"} ELSE {})

\* C16: a winning-shaped hand without any yaku is never offered TSUMO or
\* RON.
C16_OneHanMinimum ==
  /\ (query_output.fn = "_can_ron"
        /\ WinningShape(QueriedTiles, QueriedMelds)
        /\ QueriedYaku(FALSE) = {})
       => ~query_output.result
  /\ (query_output.fn = "_can_tsumo"
        /\ WinningShape(QueriedTiles, QueriedMelds)
        /\ QueriedYaku(TRUE) = {})
       => ~query_output.result

\* C17: RON is never offered to a seat whose own discards hold a tile of
\* the value of the tile it would win on.
C17_Furiten ==
  (query_output.fn = "_can_ron"
     /\ \E i \in DOMAIN query_input.player.discards :
          query_input.player.discards[i].value = query_input.tile.value)
    => ~query_output.result

\* C19: a hand with k declared melds is recognised as a winning shape
\* exactly when its concealed tiles and the winning tile split into 4-k
\* melds and one pair (or, without declared melds, form seven pairs or
\* thirteen orphans); the tiles of the declared melds stay where they are.
C19_OpenMeldsFixed ==
  query_output.fn = "_check_basic_win_shape"
    => (query_output.result <=> WinningShape(QueriedTiles, QueriedMelds))

\* The values a 13-tile holding waits on.
QueriedWaits ==
  LET counts == ValueCounts(query_input.player.hand \o MeldTiles(QueriedMelds))
  IN  {v \in TileValues :
         /\ counts[v] < 4
         /\ WinningShape(query_input.player.hand \o <<T(v)>>, QueriedMelds)}

ThirteenTiles ==
  Len(query_input.player.hand \o MeldTiles(QueriedMelds)) = 13

\* C20: for a 13-tile holding find_wait_tiles returns exactly the values
\* that have fewer than four copies in the holding and complete a winning
\* shape, and is_tenpai is true exactly when there is such a value.
C20_WaitSet ==
  ThirteenTiles =>
    /\ query_output.fn = "find_wait_tiles"
         => /\ query_output.waits = QueriedWaits
            /\ query_output.result <=> QueriedWaits # {}
    /\ query_output.fn = "is_tenpai"
         => (query_output.result <=> QueriedWaits # {})

\* ------------------------------------------------------------------------
\* A hand of open kans (SpecKan).  Seat 1 holds three East and three White,
\* seat 2 three South, seat 3 three West, seat 0 three North; each holds the
\* tile the next seat can call.  The seats discard honor tiles only and
\* answer a discard with any of their candidates.
\* ------------------------------------------------------------------------
TopK ==
  << 27, 30, 30, 30, 31, 0, 2, 4, 6, 9, 11, 13, 15,
     27, 27, 27, 28, 31, 31, 31, 1, 3, 5, 7, 10, 12,
     28, 28, 28, 29, 18, 20, 22, 24, 26, 14, 16, 8, 32,
     29, 29, 29, 30, 19, 21, 23, 25, 0, 2, 4, 6, 33,
     17 >>
BottomK == << 8, 17, 26, 9, 1, 3, 5, 7, 10, 12, 14, 16, 18, 20 >>

KanDiscards == 5

\* The orders the shuffle is taken to leave in the hand of kans.
KanOrders == << StackedWall(TopK, BottomK), StackedWall(TopA, <<>>) >>
MaxKanShuffles == 1

\* MahjongEnv.reset, at the points of Reset.
KanReset ==
  /\ hands_dealt < MaxHands
  /\ ResetPoint(GS)
  /\ \E order \in FirstOrders(KanOrders, MaxKanShuffles) : Deal(order)
  /\ UNCHANGED << twin, resolve_input, resolve_output, game_length,
                  hand_outcome_info, game_is_over,
                  query_input, query_output >>

\* MahjongEnv.step with a DISCARD candidate of an honor tile.
KanDiscard ==
  /\ game_phase = "PLAYER_DISCARD"
  /\ discards_made(GS) < KanDiscards
  /\ LET c == Offered("DISCARD")
     IN  \E i \in DOMAIN c :
           /\ c[i].tile.value >= 27
           /\ Step(step(GS, c[i]))
  /\ UNCHANGED << twin, resolve_input, resolve_output, game_length,
                  query_input, query_output >>

\* MahjongEnv.step with any candidate of the seat asked to respond.
KanRespond ==
  /\ game_phase = "WAITING_FOR_RESPONSE"
  /\ \E ty \in {"RON", "PON", "KAN", "CHI", "PASS"} :
       LET c == Offered(ty)
       IN  \E i \in DOMAIN c :
             Step(step(GS, c[i]))
  /\ UNCHANGED << twin, resolve_input, resolve_output, game_length,
                  query_input, query_output >>

NextKan == KanReset \/ KanDiscard \/ KanRespond

SpecKan == Init /\ [][NextKan]_vars

\* ------------------------------------------------------------------------
\* Properties of the kan (SpecKan)
\* ------------------------------------------------------------------------
\* The step declares a kan for seat p.
KanApplied(p) ==
  /\ Len(players'[p].melds) = Len(players[p].melds) + 1
  /\ players'[p].melds[Len(players'[p].melds)].type = "kan_open"

NoReplacementLeft == replacement_tiles_drawn >= NUM_REPLACEMENT_TILES

\* C18: a kan applied when no replacement tile can be issued ends the hand
\* in an abortive draw and does not raise.
C18_ReplacementExhaustion ==
  [][\A p \in Seats :
       (NoReplacementLeft /\ KanApplied(p))
         => /\ game_phase' = "HAND_OVER_SCORES"
            /\ hand_outcome_info'.end_type = "SPECIAL_DRAW"
            /\ ~raised']_vars

AskedWaitsOfWorkedExample ==
  /\ query_output.fn = "find_wait_tiles"
  /\ query_input.player.hand = Tiles(WorkedExample)
  /\ query_input.player.melds = <<>>

\* C21 as stated: for 23455m 456p 789s and two East, find_wait_tiles
\* returns exactly 3m and 6m.
C21_WorkedWaits ==
  AskedWaitsOfWorkedExample => query_output.waits = {2, 5}

\* C21 amended: for 23455m 456p 789s and two East, find_wait_tiles returns
\* exactly 5m and East, the two pairs of the hand.
C21_WorkedWaitsPairs ==
  AskedWaitsOfWorkedExample => query_output.waits = {4, 27}

C21_Witness ==
  /\ AskedWaitsOfWorkedExample
  /\ query_output.waits # {}

\* ------------------------------------------------------------------------
\* RulesEngine.calculate_yaku_and_score (rules.py)
\* ------------------------------------------------------------------------
\* The context of a win; loser_id is NoneIdx when the key is absent.
WinContext(winner_id, loser_id, is_tsumo, is_menzen, is_riichi, dealer_id, h, k) ==
  [winner_id |-> winner_id, loser_id |-> loser_id, is_tsumo |-> is_tsumo,
   is_menzen |-> is_menzen, is_riichi |-> is_riichi,
   is_dealer |-> (winner_id = dealer_id), dealer_id |-> dealer_id,
   honba |-> h, riichi_sticks |-> k]

ScoreResult(error, han, fu, score_base, score_payments) ==
  [raised |-> FALSE, error |-> error, han |-> han, fu |-> fu,
   score_base |-> score_base, score_payments |-> score_payments]

NoPayments == [p \in Seats |-> 0]

ScoreRaised == [ScoreResult("raised", 0, 0, 0, NoPayments) EXCEPT !.raised = TRUE]

\* Step 4: 20 fu, 25 for seven pairs, 10 more for a concealed ron.
simplified_fu(hand_tiles_final, melds, context) ==
  IF _is_seven_pairs_raw(hand_tiles_final, melds) THEN 25
  ELSE IF context.is_menzen /\ ~context.is_tsumo THEN 30
  ELSE 20

\* Step 5.2: the tests run in the order of the code, so that the branches
\* for 8 han and more and for 11 han and more are never taken.
score_base_of(han, fu) ==
  IF han >= 1 /\ han < 13 /\ fu > 0
  THEN IF han >= 6 THEN 3000
       ELSE IF han >= 8 THEN 4000
       ELSE IF han >= 11 THEN 6000
       ELSE IF han = 5 THEN 2000
       ELSE IF fu * (2 ^ (han + 2)) > 2000 THEN 2000
       ELSE fu * (2 ^ (han + 2))
  ELSE 0

\* Step 5.3 for a self-draw.
tsumo_payments(score_base, context) ==
  LET honba_bonus == context.honba * 100
      payment_oya == ((score_base * 2 + 99) \div 100) * 100 + honba_bonus
      payment_ko == ((score_base + 99) \div 100) * 100 + honba_bonus
      pays(pid) == IF context.is_dealer \/ pid = context.dealer_id
                   THEN payment_oya ELSE payment_ko
      payers == Seats \ {context.winner_id}
      RECURSIVE Total(_)
      Total(S) == IF S = {} THEN 0
                  ELSE LET pid == CHOOSE x \in S : TRUE
                       IN  pays(pid) + Total(S \ {pid})
  IN  [p \in Seats |->
         IF p = context.winner_id
         THEN Total(payers) + context.riichi_sticks * 1000
         ELSE 0 - pays(p)]

\* Every key the function requires is present, except loser_id for a ron.
\* The dora count calls self._count_dora_for_tile for each tile of the hand
\* and the melds; RulesEngine has no such method (AttributeError).  The
\* payment of a ron reads honba_bonus_total, a name never assigned
\* (NameError).
calculate_yaku_and_score(hand_tiles_final, melds, win_tile, context) ==
  IF ~context.is_tsumo /\ context.loser_id = NoneIdx
  THEN ScoreResult("Context missing loser_id for Ron win", 0, 0, 0, NoPayments)
  ELSE IF hand_tiles_final \o MeldTiles(melds) # <<>> THEN ScoreRaised
  ELSE
    LET base_yaku_han == (IF context.is_riichi THEN 1 ELSE 0)
                           + (IF context.is_tsumo /\ context.is_menzen
                              THEN 1 ELSE 0)
        han == base_yaku_han
        fu == simplified_fu(hand_tiles_final, melds, context)
        score_base == score_base_of(han, fu)
    IN  IF base_yaku_han < 1
        THEN ScoreResult("no yaku", han, 0, 0, NoPayments)
        ELSE IF context.is_tsumo
        THEN ScoreResult("none", han, fu, score_base,
                         tsumo_payments(score_base, context))
        ELSE ScoreRaised

\* Scoring.calculate_win_details (rules/scoring.py): the context is asked
\* of self._get_win_context before anything else; Scoring has no such
\* method (AttributeError).
WinDetails(is_valid_win) == [raised |-> FALSE, is_valid_win |-> is_valid_win]

calculate_win_details(player, winning_tile, is_tsumo, s) ==
  [WinDetails(FALSE) EXCEPT !.raised = TRUE]

\* ------------------------------------------------------------------------
\* Scoring of sample wins (SpecScore): seat 0 wins on 6p with the concealed
\* hand 123m 456m 999m 4p5p and a pair of green dragons.
\* ------------------------------------------------------------------------
MaxHonba == 1
MaxSticks == 1

WinContexts ==
  { WinContext(0, IF is_tsumo THEN NoneIdx ELSE 2, is_tsumo, TRUE,
               is_riichi, dealer_id, h, k) :
      is_tsumo \in BOOLEAN, is_riichi \in BOOLEAN, dealer_id \in {0, 1},
      h \in 0 .. MaxHonba, k \in 0 .. MaxSticks }

NotScored ==
  [asked |-> {}, result |-> ScoreResult("not scored", 0, 0, 0, NoPayments),
   again |-> ScoreResult("not scored", 0, 0, 0, NoPayments),
   details |-> WinDetails(FALSE)]

ScoreQuery(player, tile, context) ==
  [player |-> player, tile |-> tile, context |-> context]

InitScore ==
  /\ IsGS(GameState__init__)
  /\ twin = NoTwin
  /\ resolve_input = NoCall
  /\ resolve_output = NotCalled
  /\ game_length = "hanchan"
  /\ hand_outcome_info = NoOutcome
  /\ game_is_over = FALSE
  /\ query_input \in
       { ScoreQuery([Holding(ClosedNoYaku, <<>>, <<30>>) EXCEPT
                       !.riichi_declared = c.is_riichi], T(v), c) :
           c \in WinContexts, v \in {11, 14} }
  /\ query_output = NotScored
  /\ candidates_state = NoCandidates
  /\ hands_dealt = 0

AnswerScore(fn, output) ==
  /\ fn \notin query_output.asked
  /\ query_output' = [output EXCEPT !.asked = @ \cup {fn}]
  /\ UNCHANGED << players, live_tiles, dead_wall_tiles,
                  replacement_tiles_drawn, dora_indicators,
                  ura_dora_indicators, round_wind, round_number, honba,
                  riichi_sticks, dealer_index, current_player_index,
                  game_phase, last_discarded_tile, last_discard_player_index,
                  last_action_info, response_declarations,
                  responders_to_prompt, responded_to_current_discard,
                  turn_number, raised, twin, resolve_input, resolve_output,
                  game_length, hand_outcome_info, game_is_over, query_input,
                  candidates_state, hands_dealt >>

ScoreOf(q) ==
  calculate_yaku_and_score(SortedTiles(q.player.hand \o <<q.tile>>),
                           q.player.melds, q.tile, q.context)

\* The win is scored by the engine.
Score ==
  AnswerScore("calculate_yaku_and_score",
              [query_output EXCEPT !.result = ScoreOf(query_input)])

\* The same win is scored by the engine once more.
ScoreAgain ==
  /\ "calculate_yaku_and_score" \in query_output.asked
  /\ AnswerScore("calculate_yaku_and_score again",
                 [query_output EXCEPT !.again = ScoreOf(query_input)])

\* The win is scored by the scoring module.
ScoreDetails ==
  AnswerScore("calculate_win_details",
              [query_output EXCEPT
                 !.details = calculate_win_details(
                               query_input.player, query_input.tile,
                               query_input.context.is_tsumo, GS)])

NextScore == Score \/ ScoreAgain \/ ScoreDetails

SpecScore == InitScore /\ [][NextScore]_vars

\* ------------------------------------------------------------------------
\* Properties of scoring (SpecScore)
\* ------------------------------------------------------------------------
Scored == "calculate_yaku_and_score" \in query_output.asked

\* The han of the scored win: riichi and concealed self-draw, the only yaku
\* the engine recognises; the sample wins hold no dora.
ScoredHan ==
  (IF query_input.context.is_riichi THEN 1 ELSE 0)
    + (IF query_input.context.is_tsumo /\ query_input.context.is_menzen
       THEN 1 ELSE 0)

ScoredFu ==
  IF query_input.context.is_menzen /\ ~query_input.context.is_tsumo
  THEN 30 ELSE 20

\* Base points by han and fu, with the limit hands.
LimitBase(han, fu) ==
  IF han >= 13 THEN 8000
  ELSE IF han >= 11 THEN 6000
  ELSE IF han >= 8 THEN 4000
  ELSE IF han >= 6 THEN 3000
  ELSE IF han = 5 THEN 2000
  ELSE IF fu * (2 ^ (han + 2)) > 2000 THEN 2000
  ELSE fu * (2 ^ (han + 2))

Ceil100(n) == ((n + 99) \div 100) * 100

ScoredBase == LimitBase(ScoredHan, ScoredFu)

\* C22: a win by ron with at least one han is paid by the discarder alone:
\* the discarder loses the hand value (4 times the base points, 6 times for
\* a dealer, rounded up to 100) plus 300 per honba, every other seat is
\* unchanged, and the winner gains that amount plus 1000 per riichi stick.
C22_RonPayment ==
  (Scored /\ ~query_input.context.is_tsumo /\ ScoredHan >= 1) =>
    LET c == query_input.context
        P == Ceil100(ScoredBase * (IF c.is_dealer THEN 6 ELSE 4))
    IN  /\ ~query_output.result.raised
        /\ query_output.result.score_payments =
             [p \in Seats |->
                IF p = c.winner_id
                THEN P + 300 * c.honba + 1000 * c.riichi_sticks
                ELSE IF p = c.loser_id THEN 0 - (P + 300 * c.honba)
                ELSE 0]

\* C23: a win by self-draw with at least one han is paid by the three other
\* seats: each pays twice the base points rounded up to 100 when the winner
\* or the payer is the dealer, the base points rounded up to 100 otherwise,
\* plus 100 per honba; the winner gains the three payments and 1000 per
\* riichi stick.
C23_TsumoSplit ==
  (Scored /\ query_input.context.is_tsumo /\ ScoredHan >= 1) =>
    LET c == query_input.context
        pays(p) == (IF c.is_dealer \/ p = c.dealer_id
                    THEN Ceil100(2 * ScoredBase) ELSE Ceil100(ScoredBase))
                     + 100 * c.honba
        others == Seats \ {c.winner_id}
    IN  /\ ~query_output.result.raised
        /\ \A p \in others : query_output.result.score_payments[p] = 0 - pays(p)
        /\ \E a, b, d \in others :
             /\ {a, b, d} = others
             /\ query_output.result.score_payments[c.winner_id] =
                  pays(a) + pays(b) + pays(d) + 1000 * c.riichi_sticks

\* C24: the base points of a win with at least one han are
\* fu * 2^(han + 2) capped at 2000 up to 4 han, and 2000, 3000, 4000, 6000
\* and 8000 for 5, 6-7, 8-10, 11-12 and 13 or more han.
C24_LimitTable ==
  (Scored /\ ScoredHan >= 1) =>
    /\ ~query_output.result.raised
    /\ query_output.result.han = ScoredHan
    /\ query_output.result.score_base = ScoredBase

\* ------------------------------------------------------------------------
\* Properties of the dead wall (SpecKan)
\* ------------------------------------------------------------------------
RECURSIVE KanMelds(_)
KanMelds(melds) ==
  IF melds = <<>> THEN 0
  ELSE (IF Head(melds).type = "kan_open" THEN 1 ELSE 0) + KanMelds(Tail(melds))

\* The kans declared in the hand, each a call of draw_replacement_tile.
KansDeclared ==
  KanMelds(players[0].melds) + KanMelds(players[1].melds)
    + KanMelds(players[2].melds) + KanMelds(players[3].melds)

\* The step stays within the hand: it is not a MahjongEnv.reset.
WithinHand == hands_dealt' = hands_dealt

\* C25: the n-th kan of a hand, for n up to 4, draws the dead-wall slot
\* n - 1 and advances the replacement counter by one; a fifth or later kan
\* draws nothing and leaves the counter, the dead wall and the live wall as
\* they were; no other step of a hand moves the counter or the dead wall.
C25_ReplacementLimit ==
  [][/\ \A p \in Seats :
          KanApplied(p) =>
            /\ replacement_tiles_drawn = KansDeclared
                 \/ (replacement_tiles_drawn = NUM_REPLACEMENT_TILES
                       /\ KansDeclared >= NUM_REPLACEMENT_TILES)
            /\ IF KansDeclared < NUM_REPLACEMENT_TILES
               THEN /\ players'[p].drawn_tile = dead_wall_tiles[KansDeclared + 1]
                    /\ replacement_tiles_drawn' = replacement_tiles_drawn + 1
                    /\ dead_wall_tiles' = dead_wall_tiles
               ELSE /\ players'[p].drawn_tile = NoTile
                    /\ replacement_tiles_drawn' = replacement_tiles_drawn
                    /\ dead_wall_tiles' = dead_wall_tiles
                    /\ live_tiles' = live_tiles
     /\ (WithinHand /\ \A p \in Seats : ~KanApplied(p)) =>
          /\ replacement_tiles_drawn' = replacement_tiles_drawn
          /\ dead_wall_tiles' = dead_wall_tiles]_vars

\* A fifth kan has been declared.
C25_Witness ==
  /\ KansDeclared = NUM_REPLACEMENT_TILES + 1
  /\ replacement_tiles_drawn = NUM_REPLACEMENT_TILES
  /\ \E p \in Seats : players[p].drawn_tile = NoTile /\ KanMelds(players[p].melds) > 0

\* The dead-wall slots (counted from 0) of the first n indicators of a kind,
\* the dora at 4, 6, ... and the ura-dora at 5, 7, ...
IndicatorSlots(n, first) == { first + 2 * k : k \in 0 .. (n - 1) }

HandInProgress == game_phase # "GAME_START"

\* During a hand there are as many ura-dora indicators as dora indicators,
\* at least 1 and at most 5, the k-th pair being the dead-wall slots 2k + 2
\* and 2k + 3, none of them a replacement slot.
DoraCountOk ==
  HandInProgress =>
    /\ Len(dora_indicators) = Len(ura_dora_indicators)
    /\ Len(dora_indicators) \in 1 .. (1 + NUM_REPLACEMENT_TILES)
    /\ \A k \in DOMAIN dora_indicators :
         /\ dora_indicators[k] = dead_wall_tiles[2 * k + 3]
         /\ ura_dora_indicators[k] = dead_wall_tiles[2 * k + 4]
    /\ IndicatorSlots(Len(dora_indicators), 4)
         \cap IndicatorSlots(Len(ura_dora_indicators), 5) = {}
    /\ \A slot \in IndicatorSlots(Len(dora_indicators), 4)
                     \cup IndicatorSlots(Len(ura_dora_indicators), 5) :
         slot >= NUM_REPLACEMENT_TILES /\ slot < NUM_DEAD_WALL

\* C26: at every point of a hand the dora and ura-dora indicators are
\* equally many, between 1 and 5, and lie on dead-wall slots of their own;
\* a kan declared below the ceiling of 5 adds one dora and one ura-dora
\* indicator and keeps the earlier ones; a kan declared at the ceiling, and
\* every other step of a hand, leaves both lists as they were.
C26_DoraCeiling ==
  [][/\ DoraCountOk'
     /\ (HandInProgress /\ WithinHand) =>
       IF (\E p \in Seats : KanApplied(p))
            /\ Len(dora_indicators) < 1 + NUM_REPLACEMENT_TILES
       THEN /\ Len(dora_indicators') = Len(dora_indicators) + 1
            /\ Len(ura_dora_indicators') = Len(ura_dora_indicators) + 1
            /\ SubSeq(dora_indicators', 1, Len(dora_indicators)) = dora_indicators
            /\ SubSeq(ura_dora_indicators', 1, Len(ura_dora_indicators))
                 = ura_dora_indicators
       ELSE /\ dora_indicators' = dora_indicators
            /\ ura_dora_indicators' = ura_dora_indicators]_vars

\* Five indicators of each kind are revealed and a further kan was declared.
C26_Witness ==
  /\ Len(dora_indicators) = 1 + NUM_REPLACEMENT_TILES
  /\ KansDeclared = NUM_REPLACEMENT_TILES + 1

\* ------------------------------------------------------------------------
\* The dora of an indicator (game_state.py, rules.py, rules/scoring.py)
\* ------------------------------------------------------------------------
\* Wall._calculate_next_tile_value; NoneIdx stands for the ValueError.
_calculate_next_tile_value(value) ==
  IF 0 <= value /\ value <= 26
  THEN LET suit_offset == (value \div 9) * 9
           number_in_suit == value % 9
           next_number_in_suit == (number_in_suit + 1) % 9
       IN  suit_offset + next_number_in_suit
  ELSE IF 27 <= value /\ value <= 30 THEN 27 + ((value - 27 + 1) % 4)
  ELSE IF 31 <= value /\ value <= 33 THEN 31 + ((value - 31 + 1) % 3)
  ELSE NoneIdx

\* RulesEngine._get_dora_value_for_tile: the indicators whose dora is the
\* tile.
_get_dora_value_for_tile(tile, indicators) ==
  LET dora_val(indicator_val) ==
        IF 0 <= indicator_val /\ indicator_val <= 7 THEN indicator_val + 1
        ELSE IF indicator_val = 8 THEN 0
        ELSE IF 9 <= indicator_val /\ indicator_val <= 16 THEN indicator_val + 1
        ELSE IF indicator_val = 17 THEN 9
        ELSE IF 18 <= indicator_val /\ indicator_val <= 25 THEN indicator_val + 1
        ELSE IF indicator_val = 26 THEN 18
        ELSE IF 27 <= indicator_val /\ indicator_val <= 29 THEN indicator_val + 1
        ELSE IF indicator_val = 30 THEN 27
        ELSE IF 31 <= indicator_val /\ indicator_val <= 32 THEN indicator_val + 1
        ELSE IF indicator_val = 33 THEN 31
        ELSE 0 - 1
  IN  Cardinality({i \in DOMAIN indicators :
                     tile.value = dora_val(indicators[i].value)})

\* rules/constants.py
SOU_9 == 26
WIND_EAST == 27
WIND_NORTH == 30
DRAGON_WHITE == 31
DRAGON_RED == 33

DoraValues(values) == [raised |-> FALSE, values |-> values]

\* Scoring._get_dora_values_from_indicators: the first test made on an
\* indicator, MAN_1 <= val <= MAN_9 - 1, reads MAN_9, and the next one
\* reads MAN_9 as well; scoring.py imports MAN_1 and SOU_9 from
\* rules/constants.py but not MAN_9, PIN_1, PIN_9 or SOU_1 (NameError).
_get_dora_values_from_indicators(indicators) ==
  IF indicators = <<>> THEN DoraValues({})
  ELSE [DoraValues({}) EXCEPT !.raised = TRUE]

\* ------------------------------------------------------------------------
\* The three dora functions applied to one indicator (SpecDora)
\* ------------------------------------------------------------------------
NotAsked == [asked |-> {}, next |-> NoneIdx,
             count |-> [w \in TileValues |-> 0], values |-> DoraValues({})]

InitDora ==
  /\ IsGS(GameState__init__)
  /\ twin = NoTwin
  /\ resolve_input = NoCall
  /\ resolve_output = NotCalled
  /\ game_length = "hanchan"
  /\ hand_outcome_info = NoOutcome
  /\ game_is_over = FALSE
  /\ query_input \in { [indicators |-> <<T(v)>>] : v \in TileValues }
  /\ query_output = NotAsked
  /\ candidates_state = NoCandidates
  /\ hands_dealt = 0

AnswerDora(fn, output) ==
  /\ fn \notin query_output.asked
  /\ query_output' = [output EXCEPT !.asked = @ \cup {fn}]
  /\ UNCHANGED << players, live_tiles, dead_wall_tiles,
                  replacement_tiles_drawn, dora_indicators,
                  ura_dora_indicators, round_wind, round_number, honba,
                  riichi_sticks, dealer_index, current_player_index,
                  game_phase, last_discarded_tile, last_discard_player_index,
                  last_action_info, response_declarations,
                  responders_to_prompt, responded_to_current_discard,
                  turn_number, raised, twin, resolve_input, resolve_output,
                  game_length, hand_outcome_info, game_is_over, query_input,
                  candidates_state, hands_dealt >>

QueryNextValue ==
  AnswerDora("_calculate_next_tile_value",
             [query_output EXCEPT
                !.next = _calculate_next_tile_value(
                           query_input.indicators[1].value)])

QueryDoraCount ==
  AnswerDora("_get_dora_value_for_tile",
             [query_output EXCEPT
                !.count = [w \in TileValues |->
                             _get_dora_value_for_tile(T(w),
                                                      query_input.indicators)]])

QueryDoraValues ==
  AnswerDora("_get_dora_values_from_indicators",
             [query_output EXCEPT
                !.values = _get_dora_values_from_indicators(
                             query_input.indicators)])

NextDora == QueryNextValue \/ QueryDoraCount \/ QueryDoraValues

SpecDora == InitDora /\ [][NextDora]_vars

\* The next rank of the suit, 1 after 9; the next wind, East after North;
\* the next dragon, white after red.
DoraSuccessor(v) ==
  IF v <= SOU_9 THEN (IF v % 9 = 8 THEN v - 8 ELSE v + 1)
  ELSE IF v <= WIND_NORTH THEN (IF v = WIND_NORTH THEN WIND_EAST ELSE v + 1)
  ELSE IF v = DRAGON_RED THEN DRAGON_WHITE ELSE v + 1

\* C27: for every indicator value, _calculate_next_tile_value returns the
\* successor inside the indicator's group, _get_dora_value_for_tile counts
\* 1 for that value and 0 for every other, and
\* _get_dora_values_from_indicators returns that value alone.
C27_DoraSuccessor ==
  LET dora == DoraSuccessor(query_input.indicators[1].value)
  IN  /\ "_calculate_next_tile_value" \in query_output.asked
          => query_output.next = dora
      /\ "_get_dora_value_for_tile" \in query_output.asked
          => query_output.count =
               [w \in TileValues |-> IF w = dora THEN 1 ELSE 0]
      /\ "_get_dora_values_from_indicators" \in query_output.asked
          => query_output.values = DoraValues({dora})

\* C28: a win scored twice by the engine gives twice the same verdict, han,
\* fu, base points and payments, and the scoring module gives a verdict for
\* it as well.
C28_ScoringDeterminism ==
  /\ "calculate_yaku_and_score again" \in query_output.asked
       => /\ ~query_output.result.raised
          /\ ~query_output.again.raised
          /\ query_output.again = query_output.result
  /\ "calculate_win_details" \in query_output.asked
       => ~query_output.details.raised

\* ------------------------------------------------------------------------
\* Properties of the response phase
\* ------------------------------------------------------------------------
\* The step is a legal declaration by the seat asked to respond.
Declares ==
  /\ Applied
  /\ game_phase = "WAITING_FOR_RESPONSE"
  /\ last_action_info'.player = current_player_index
  /\ IsCandidate(GS, current_player_index, last_action_info'.action_obj)

\* A seat other than the one declaring is still queued.
OthersQueued ==
  \E k \in DOMAIN responders_to_prompt :
    responders_to_prompt[k] # current_player_index

MeldsGrew(p) == Len(players'[p].melds) = Len(players[p].melds) + 1

\* The resolution of the declarations recorded so far and the one made in
\* the step.
Chosen ==
  _resolve_response_priorities(
    SetDeclaration(response_declarations, current_player_index,
                   last_action_info'.action_obj),
    last_discard_player_index)

\* C29: a declaration made while another seat is still queued changes no
\* player, wall or phase and hands the turn to the next queued seat; a
\* declaration made by the last queued seat applies the one call chosen by
\* the resolution, to the seat that declared it, and no other.
C29_DeferredResolution ==
  [][Declares =>
       IF OthersQueued
       THEN /\ players' = players
            /\ live_tiles' = live_tiles
            /\ dead_wall_tiles' = dead_wall_tiles
            /\ replacement_tiles_drawn' = replacement_tiles_drawn
            /\ dora_indicators' = dora_indicators
            /\ game_phase' = game_phase
            /\ last_discarded_tile' = last_discarded_tile
            /\ current_player_index' = responders_to_prompt[2]
            /\ DeclaredBy(response_declarations', current_player_index)
       ELSE /\ \A p \in Seats :
                 MeldsGrew(p) <=>
                   (Chosen.player = p
                      /\ Chosen.action.type \in {"PON", "KAN", "CHI"})
            /\ \A p \in Seats :
                 ~MeldsGrew(p) => players'[p].melds = players[p].melds
            /\ Chosen.action.type = "RON" => game_phase' # "WAITING_FOR_RESPONSE"]_vars

\* A call has been declared and waits for a seat that is still queued.
C29_Witness ==
  /\ game_phase = "WAITING_FOR_RESPONSE"
  /\ responders_to_prompt # <<>>
  /\ \E k \in DOMAIN response_declarations :
       response_declarations[k].action.type \in {"RON", "PON", "KAN", "CHI"}

\* ------------------------------------------------------------------------
\* Properties of the candidates of the seat to discard
\* ------------------------------------------------------------------------
\* The distinct tiles the seat holds, the drawn tile included.
HeldTiles(p) ==
  { players[p].hand[i] : i \in DOMAIN players[p].hand }
    \cup (IF players[p].drawn_tile = NoTile THEN {}
          ELSE {players[p].drawn_tile})

\* C30: in PLAYER_DISCARD generating the candidates of the current seat
\* does not raise, and the list holds one DISCARD for each distinct tile of
\* the hand and the drawn tile, and no other DISCARD.
C30_DiscardAvailable ==
  game_phase = "PLAYER_DISCARD" =>
    /\ ~candidates_raise(GS, current_player_index)
    /\ LET c == candidates_of_type(GS, current_player_index, "DISCARD")
       IN  /\ { c[i].tile : i \in DOMAIN c } = HeldTiles(current_player_index)
           /\ Len(c) = Cardinality(HeldTiles(current_player_index))

\* The same with a TSUMO among the candidates.
TsumoOffered ==
  /\ game_phase = "PLAYER_DISCARD"
  /\ ~candidates_raise(GS, current_player_index)
  /\ candidates_of_type(GS, current_player_index, "TSUMO") # <<>>

\* ------------------------------------------------------------------------
\* Properties of the riichi candidates
\* ------------------------------------------------------------------------
\* The seat has called chi, pon or open kan in the hand.
HasCalled(p) ==
  \E k \in DOMAIN players[p].melds :
    players[p].melds[k].type \in {"chi", "pon", "kan_open"}

RiichiOffered ==
  /\ game_phase = "PLAYER_DISCARD"
  /\ ~candidates_raise(GS, current_player_index)
  /\ candidates_of_type(GS, current_player_index, "RIICHI") # <<>>

\* C31: RIICHI is not among the candidates of a seat that has called, has
\* declared riichi, has fewer than 1000 points, or when fewer than 4 live
\* tiles remain.
C31_RiichiPreconditions ==
  RiichiOffered =>
    /\ ~HasCalled(current_player_index)
    /\ ~players[current_player_index].riichi_declared
    /\ players[current_player_index].score >= 1000
    /\ Len(live_tiles) >= 4

\* ------------------------------------------------------------------------
\* Properties of the riichi discards (SpecHand)
\* ------------------------------------------------------------------------
\* The 13 tiles are one tile short of a winning shape.
OneTileShort(tiles) ==
  /\ Len(tiles) = 13
  /\ \E v \in TileValues :
       /\ ValueCounts(tiles)[v] < 4
       /\ WinningShape(tiles \o <<T(v)>>, <<>>)

\* The tiles of the concealed seat of which one copy can be discarded to
\* leave 13 tiles one short of a winning shape.
TenpaiDiscards ==
  IF QueriedMelds # <<>> THEN {}
  ELSE { QueriedTiles[i] : i \in
           { j \in DOMAIN QueriedTiles :
               OneTileShort(RemoveFirst(QueriedTiles, QueriedTiles[j])) } }

AskedRiichiDiscards ==
  query_output.fn \in {"RulesEngine._find_riichi_discards",
                       "ActionValidator._find_riichi_discards"}

\* C32: the engine and the validator both return, as riichi discards, the
\* tiles of which one copy can be discarded to leave a tenpai hand.
C32_RiichiDiscards ==
  AskedRiichiDiscards =>
    /\ ~query_output.raised
    /\ query_output.waits = TenpaiDiscards

\* ------------------------------------------------------------------------
\* A hand in which the dealer holds nine kinds of terminals and honors
\* (SpecNine).  Seat 1 can chi and seat 2 can pon the dealer's 4m and add
\* its last 4m to the pon; seat 3 draws the fourth of a triplet it holds.
\* The seats discard only 4m, 5m, 6m and 7m.
\* ------------------------------------------------------------------------
TopN ==
  << 0, 8, 9, 17, 18, 26, 27, 28, 29, 3, 4, 5, 6,
     1, 2, 10, 11, 19, 20, 22, 23, 12, 13, 14, 15, 4,
     3, 3, 3, 1, 2, 10, 11, 19, 20, 22, 23, 24, 5,
     30, 31, 32, 33, 7, 7, 7, 16, 16, 16, 13, 14, 6,
     12, 21, 7, 16, 13, 24, 25 >>

NineDiscards == 5

\* The orders the shuffle is taken to leave in the hand of nine terminals.
NineOrders == << StackedWall(TopN, <<>>), StackedWall(TopB, BottomB) >>
MaxNineShuffles == 1

\* MahjongEnv.reset, at the points of Reset.
NineReset ==
  /\ hands_dealt < MaxHands
  /\ ResetPoint(GS)
  /\ \E order \in FirstOrders(NineOrders, MaxNineShuffles) : Deal(order)
  /\ UNCHANGED << twin, resolve_input, resolve_output, game_length,
                  hand_outcome_info, game_is_over,
                  query_input, query_output >>

\* MahjongEnv.step with a DISCARD candidate of 4m, 5m, 6m or 7m.
NineDiscard ==
  /\ game_phase = "PLAYER_DISCARD"
  /\ discards_made(GS) < NineDiscards
  /\ LET c == Offered("DISCARD")
     IN  \E i \in DOMAIN c :
           /\ c[i].tile.value \in 3 .. 6
           /\ Step(step(GS, c[i]))
  /\ UNCHANGED << twin, resolve_input, resolve_output, game_length,
                  query_input, query_output >>

\* MahjongEnv.step with the SPECIAL_DRAW candidate.
NineDeclare ==
  /\ game_phase = "PLAYER_DISCARD"
  /\ LET c == Offered("SPECIAL_DRAW")
     IN  \E i \in DOMAIN c : Step(step(GS, c[i]))
  /\ UNCHANGED << twin, resolve_input, resolve_output, game_length,
                  query_input, query_output >>

\* MahjongEnv.step with any candidate of the seat asked to respond.
NineRespond ==
  /\ game_phase = "WAITING_FOR_RESPONSE"
  /\ \E ty \in {"RON", "PON", "KAN", "CHI", "PASS"} :
       LET c == Offered(ty)
       IN  \E i \in DOMAIN c :
             Step(step(GS, c[i]))
  /\ UNCHANGED << twin, resolve_input, resolve_output, game_length,
                  query_input, query_output >>

\* The kans a caller may try: the seat holds four tiles of value v, or a
\* pon of v and one more tile.
HoldsFour(player, v) == CountValue(full_hand_tiles(player), v) = 4

HoldsPonAndOne(player, v) ==
  /\ CountValue(full_hand_tiles(player), v) >= 1
  /\ \E k \in DOMAIN player.melds :
       /\ player.melds[k].type = "pon"
       /\ player.melds[k].tiles[1].value = v

\* GameState.apply_action with a closed or added KAN of tiles the seat
\* holds: generate_candidate_actions raises for such a seat, so the
\* environment never has the action in current_candidates.
NineSelfKan ==
  /\ game_phase = "PLAYER_DISCARD"
  /\ \E v \in 0 .. 33 :
       \/ /\ HoldsFour(players[current_player_index], v)
          /\ SetGS(apply_action(GS, ActKan(T(v), "CLOSED"),
                                current_player_index))
       \/ /\ HoldsPonAndOne(players[current_player_index], v)
          /\ SetGS(apply_action(GS, ActKan(T(v), "ADDED"),
                                current_player_index))
  /\ UNCHANGED << twin, resolve_input, resolve_output, game_length,
                  hand_outcome_info, game_is_over,
                  query_input, query_output, candidates_state, hands_dealt >>

NextNine ==
  NineReset \/ NineDiscard \/ NineDeclare \/ NineRespond \/ NineSelfKan

SpecNine == Init /\ [][NextNine]_vars

\* ------------------------------------------------------------------------
\* Properties of the nine-terminals declaration
\* ------------------------------------------------------------------------
SpecialDrawOffered ==
  /\ game_phase = "PLAYER_DISCARD"
  /\ ~candidates_raise(GS, current_player_index)
  /\ candidates_of_type(GS, current_player_index, "SPECIAL_DRAW") # <<>>

\* The distinct terminal and honor values among the hand and the drawn tile.
TerminalKinds(p) ==
  { t.value : t \in HeldTiles(p) } \cap terminal_honor_values

\* C33: SPECIAL_DRAW is offered only to a seat that holds nine or more
\* distinct terminal and honor values, has not discarded in the hand, and
\* while no seat has called.
C33_NineTerminalsFirstDraw ==
  SpecialDrawOffered =>
    /\ Cardinality(TerminalKinds(current_player_index)) >= 9
    /\ players[current_player_index].discards = <<>>
    /\ \A p \in Seats : players[p].melds = <<>>

\* ------------------------------------------------------------------------
\* The effect of an applied pon (Spec)
\* ------------------------------------------------------------------------
\* The step makes the last declaration and the resolution chooses a PON.
PonApplied == Declares /\ ~OthersQueued /\ Chosen.action.type = "PON"

\* The tiles at the positions of `before` that are gone in `after`, when
\* `after` is `before` with two entries taken out.
TwoTaken(before, after) ==
  { pr \in (DOMAIN before) \X (DOMAIN before) :
      /\ pr[1] < pr[2]
      /\ after = [ k \in 1 .. (Len(before) - 2) |->
                     before[IF k < pr[1] THEN k
                            ELSE IF k + 1 < pr[2] THEN k + 1 ELSE k + 2] ] }

\* C34: an applied PON takes exactly two tiles of the called value, red or
\* not, out of the caller's hand, melds them with the discarded tile, and
\* changes no other seat's hand or melds.
C34_PonEffect ==
  [][PonApplied =>
       LET p == Chosen.player
           before == players[p].hand
           after == players'[p].hand
       IN  /\ \E pr \in TwoTaken(before, after) :
                /\ before[pr[1]].value = last_discarded_tile.value
                /\ before[pr[2]].value = last_discarded_tile.value
                /\ LET m == players'[p].melds[Len(players'[p].melds)]
                   IN  /\ m.type = "pon"
                       /\ Len(m.tiles) = 3
                       /\ LET taken == << before[pr[1]], before[pr[2]], last_discarded_tile >>
                          IN  \A k \in 1 .. 3 :
                                SeqCount(m.tiles, taken[k]) = SeqCount(taken, taken[k])
           /\ MeldsGrew(p)
           /\ SubSeq(players'[p].melds, 1, Len(players[p].melds)) = players[p].melds
           /\ \A q \in Seats \ {p} :
                /\ players'[q].hand = players[q].hand
                /\ players'[q].melds = players[q].melds]_vars


\* ------------------------------------------------------------------------
\* The self-declared kan (SpecNine)
\* ------------------------------------------------------------------------
\* The step is a closed or added KAN of value v by the seat to act, which
\* holds the tiles for it, while a replacement tile is left.
SelfKanDeclared(v) ==
  /\ Applied
  /\ game_phase = "PLAYER_DISCARD"
  /\ last_action_info'.type = "KAN"
  /\ last_action_info'.player = current_player_index
  /\ last_action_info'.action_obj.tile.value = v
  /\ \/ /\ last_action_info'.action_obj.kan_type = "CLOSED"
        /\ HoldsFour(players[current_player_index], v)
     \/ /\ last_action_info'.action_obj.kan_type = "ADDED"
        /\ HoldsPonAndOne(players[current_player_index], v)
  /\ replacement_tiles_drawn < NUM_REPLACEMENT_TILES

\* C35: a legal closed or added KAN with a replacement tile left keeps the
\* seat to act in PLAYER_DISCARD with the replacement tile as its drawn
\* tile, one more dora indicator, a four-tile kan meld of the value, and the
\* tile it had drawn before still in its hand or in the meld.
C35_SelfKanFlow ==
  [][\A v \in 0 .. 33 :
       SelfKanDeclared(v) =>
         LET p == current_player_index
             drawn == players[p].drawn_tile
         IN  /\ game_phase' = "PLAYER_DISCARD"
             /\ current_player_index' = p
             /\ ~raised'
             /\ players'[p].drawn_tile = dead_wall_tiles[replacement_tiles_drawn + 1]
             /\ replacement_tiles_drawn' = replacement_tiles_drawn + 1
             /\ Len(dora_indicators') = Len(dora_indicators) + 1
             /\ \E k \in DOMAIN players'[p].melds :
                  /\ Len(players'[p].melds[k].tiles) = 4
                  /\ \A i \in 1 .. 4 : players'[p].melds[k].tiles[i].value = v
             /\ drawn # NoTile =>
                  \/ InSeq(players'[p].hand, drawn)
                  \/ \E k \in DOMAIN players'[p].melds :
                       InSeq(players'[p].melds[k].tiles, drawn)]_vars

\* ------------------------------------------------------------------------
\* Tile counts of the seats (Spec)
\* ------------------------------------------------------------------------
\* The tiles of seat p: concealed hand, melds and the drawn tile.
SeatTiles(p) ==
  Len(players[p].hand) + Len(MeldTiles(players[p].melds))
    + (IF players[p].drawn_tile # NoTile THEN 1 ELSE 0)

\* C36: while a hand is played every seat holds 13 or 14 tiles, counting its
\* concealed hand, the tiles of its melds and its drawn tile.
C36_SeatTileCount ==
  game_phase \in {"PLAYER_DISCARD", "WAITING_FOR_RESPONSE"} =>
    \A p \in Seats : SeatTiles(p) \in {13, 14}

\* ------------------------------------------------------------------------
\* The bookkeeping of the response phase (Spec)
\* ------------------------------------------------------------------------
\* C37: outside WAITING_FOR_RESPONSE no seat is queued to respond and no
\* declaration is recorded.  (Before the first discard of a game the queue
\* and the declarations do not exist, and a hand dealt during a response
\* phase keeps those of the hand it replaces.)
C37_ResponseBookkeepingCleared ==
  game_phase # "WAITING_FOR_RESPONSE" =>
    /\ responders_to_prompt = <<>>
    /\ response_declarations = <<>>

\* C37 read for a game in which a discard has been made: the bookkeeping
\* exists, and outside WAITING_FOR_RESPONSE it is empty.
C37_ClearedAfterFirstDiscard ==
  (game_phase # "WAITING_FOR_RESPONSE"
     /\ response_declarations # UnsetDeclarations) =>
    /\ responders_to_prompt = <<>>
    /\ response_declarations = <<>>

\* The seats after the discarder in turn order.
TurnOrderAfter(discarder) ==
  [k \in 1 .. (num_players - 1) |-> (discarder + k) % num_players]

\* q lists some of the seats of `order`, each once, in the order of `order`.
IsSubsequenceOf(q, order) ==
  /\ \A i \in DOMAIN q : InSeq(order, q[i])
  /\ \A i, j \in DOMAIN q :
       i < j =>
         \E a, b \in DOMAIN order : a < b /\ order[a] = q[i] /\ order[b] = q[j]

\* C38: in WAITING_FOR_RESPONSE the queue of seats still to respond is not
\* empty, lists seats other than the discarder once each in turn order
\* after the discarder, is headed by the seat to act, and holds no seat
\* whose declaration is already recorded.
C38_ResponseQueueWellFormed ==
  game_phase = "WAITING_FOR_RESPONSE" =>
    /\ responders_to_prompt # <<>>
    /\ last_discard_player_index \in Seats
    /\ IsSubsequenceOf(responders_to_prompt,
                       TurnOrderAfter(last_discard_player_index))
    /\ current_player_index = responders_to_prompt[1]
    /\ \A i \in DOMAIN responders_to_prompt :
         ~DeclaredBy(response_declarations, responders_to_prompt[i])

\* Two seats are queued and an earlier seat has declared already.
C38_Witness ==
  /\ game_phase = "WAITING_FOR_RESPONSE"
  /\ Len(responders_to_prompt) >= 2
  /\ response_declarations # <<>>

\* ------------------------------------------------------------------------
\* Conservation of points (SpecLegal, Spec)
\* ------------------------------------------------------------------------
\* The points on the table: the four scores and 1000 per riichi stick.
PointsOnTable ==
  players[0].score + players[1].score + players[2].score + players[3].score
    + 1000 * riichi_sticks

\* C39: the four scores and the riichi sticks, at 1000 points each, add up
\* to four times the initial score in every state of the game.
C39_PointConservation == PointsOnTable = 4 * initial_score

\* A hand has been settled with points moving between the seats.
C39_Witness ==
  /\ game_phase = "HAND_OVER_SCORES"
  /\ \E p \in Seats : players[p].score > initial_score
  /\ \E p \in Seats : players[p].score < initial_score

\* ------------------------------------------------------------------------
\* Termination of a hand (SpecLegal)
\* ------------------------------------------------------------------------
\* The orders the shuffle is taken to leave in the hands played to the
\* end.
MaxLegalShuffles == 4
LegalShuffles == FirstOrders(ShuffleOrders, MaxLegalShuffles)

\* MahjongEnv.reset called before a game and after a hand.
NewHand ==
  /\ game_phase \in {"GAME_START", "HAND_OVER_SCORES"}
  /\ hands_dealt < MaxHands
  /\ \E order \in LegalShuffles : Deal(order)
  /\ twin' = NoTwin
  /\ UNCHANGED << resolve_input, resolve_output, game_length,
                  hand_outcome_info, game_is_over,
                  query_input, query_output >>

NextLegal == NewHand \/ Discard \/ Declare \/ Respond

\* MahjongEnv.step with candidate a leaves a state other than the present one.
StepChanges(a) ==
  LET r == step(GS, a)
  IN  r.gs # GS \/ r.outcome # hand_outcome_info \/ r.over # game_is_over
        \/ twin # NoTwin \/ (r.refreshed /\ r.info # candidates_state)

ChoiceChanges(types) ==
  \E ty \in types :
    LET c == Choices(GS, ty)
    IN  \E i \in DOMAIN c : StepChanges(c[i])

\* Some step of NextLegal changes the state: ENABLED <<NextLegal>>_vars,
\* written out action by action.
CanStep ==
  \/ /\ game_phase \in {"GAME_START", "HAND_OVER_SCORES"}
     /\ hands_dealt < MaxHands
  \/ ChoiceChanges({"DISCARD", "TSUMO", "RIICHI", "SPECIAL_DRAW",
                    "RON", "PON", "KAN", "CHI", "PASS"})

\* A call of MahjongEnv.reset before a game or after a hand, as the count of
\* hands dealt shows it.
DealCounted ==
  /\ game_phase \in {"GAME_START", "HAND_OVER_SCORES"}
  /\ hands_dealt < MaxHands
  /\ hands_dealt' = hands_dealt + 1

\* The caller of the environment resets it and then keeps stepping it with
\* an entry of current_candidates for as long as a step changes the state:
\* weak fairness of NextLegal, with its enabling condition written as
\* CanStep.
Fairness ==
  /\ WF_hands_dealt(DealCounted)
  /\ ([]<>(~CanStep) \/ []<><<NextLegal>>_vars)

SpecLegal == Init /\ [][NextLegal]_vars /\ Fairness

HandDealt == game_phase = "PLAYER_DISCARD" /\ discards_made(GS) = 0

HandOver == game_phase = "HAND_OVER_SCORES"

\* C40: a hand that has been dealt reaches HAND_OVER_SCORES whatever
\* candidates the seats choose.
C40_HandTerminates == HandDealt ~> HandOver

=============================================================================
